---------------------------- MODULE Spec2Model ----------------------------
(***************************************************************************)
(* Verification model of the parsing utilities of                          *)
(* cometadata/reconcile-curation-in-cris-systems:                          *)
(*                                                                         *)
(*   crossref-fast-field-parse / openalex-fast-field-parse                 *)
(*     - OrganizedOutput, the sharded CSV writer with an LRU cache of      *)
(*       open files (SpecWriter);                                          *)
(*     - run_extraction_pipeline: file workers, the bounded batch queue,   *)
(*       the writer thread and the aggregation of statistics               *)
(*       (SpecPipeline);                                                   *)
(*     - JsonlProcessor::process, the filters and statistics of the      *)
(*       record loop (SpecRecords);                                        *)
(*     - PatternTrie::new and FieldExtractor::extract (SpecExtract);       *)
(*   parse_join_normalize_author_affiliation_metadata                      *)
(*     - external_sort::sort_csv followed by the streaming group-by of     *)
(*       main (SpecTransform).                                             *)
(*                                                                         *)
(* Every specification uses its own variables; the variables of the other  *)
(* components stay at their idle value.                                    *)
(***************************************************************************)
EXTENDS Integers, Sequences, FiniteSets, TLC

VARIABLES
    \* ---- OrganizedOutput (sharded writer) ----
    max_open_files,     \* self.max_open_files, after .max(1)
    current_writers,    \* keys of self.current_writers (open csv writers)
    open_file_lru,      \* self.open_file_lru, front of the deque first
    created_files,      \* self.created_files (one path per key)
    disk,               \* key -> lines of <dir>/<key>.csv, in file order
    next_row,           \* id the next row passed to write_batch receives
    batch_log,          \* per write_batch call: rows passed, result
    opens,              \* key -> number of successful opens of its file
    flush_errors,       \* keys reported by the last flush()
    cli_max_open_files, \* cli.max_open_files as given on the command line
    \* ---- run_extraction_pipeline ----
    files,              \* the input files: [openable, recs], recs = rows per record
    batch_size,         \* cli.batch_size
    num_threads,        \* size of the rayon pool
    queue,              \* batches in the bounded channel, oldest first
    rx_alive,           \* the Receiver has not been dropped
    sender_dropped,     \* main has executed drop(batch_sender)
    worker,             \* file -> state of JsonlProcessor::process on it
    results,            \* file -> ProcessedFileResult (once the worker is done)
    accepted,           \* file -> batches the queue accepted from it, in order
    send_calls,         \* file -> [ok, failed]: sender.send calls that returned
    wpc,                \* writer thread: "start", "recv", "done", "failed"
    wstat,              \* writer thread counters and the fate of its flush
    mpc,                \* main thread: "par_iter", "aggregate", "returned"
    agg_idx,            \* index of the next result the aggregation loop reads
    stats,              \* IncrementalStats
    files_with_errors,  \* paths pushed by the aggregation loop
    run_result,         \* what run_extraction_pipeline and main returned
    \* ---- transform: external_sort::sort_csv, then the group-by of main ----
    input_rows,         \* the data rows of cli.input, in file order
    chunk_size,         \* cli.chunk_size
    num_workers,        \* num_cpus::get(): channel capacity and rayon threads
    tpc,                \* "chunking", "merging", "grouping", "done"
    rd_off,             \* bytes of the input the producer has read
    leftover,           \* producer: bytes carried to the next block
    is_first_block,     \* producer: no block has been sent yet
    producer_done,      \* the producer left its loop and dropped tx
    blocks,             \* (block, has_header) pairs in the channel
    sorter,             \* rayon thread -> block it is working on
    chunk_index,        \* the shared AtomicUsize
    chunk_store,        \* chunk files of pass 0: chunk_store[idx + 1]
    block_results,      \* per finished block, the chunk indices it produced
    chunk_files,        \* sort_csv: contents of the current pass's chunks
    pass_num,           \* sort_csv: intermediate merge passes run
    sorted_rows,        \* rows of sorted_data.csv
    gb_pos,             \* rows of sorted_data.csv the group-by has read
    current_work_id,    \* main: current_work_id (NoKey for None)
    current_doi,        \* main: current_doi ("" for None)
    records_for_current_work,
    calls,              \* arguments of each process_work_group call, in order
    output,             \* rows written to cli.output
    \* JsonlProcessor::process, record by record (SpecRecords)
    variant,            \* "crossref" or "openalex": which program runs
    filter_group,       \* filter_member / filter_source_id (an Option)
    filter_doi_prefix,  \* filter_doi_prefix (an Option)
    r_batch_size,       \* batch_size
    r_rx_alive,         \* the writer thread still holds the Receiver
    json_records,       \* the parsed records of the file, in line order
    rec_pos,            \* records the loop has handled
    file_stats,         \* FileStats
    batch_buffer,       \* batch_buffer
    sent,               \* batches the channel accepted, in order
    skipped,            \* records_filtered_out, records_missing_*
    proc_result,        \* "running", "ok" or "send_error"
    \* PatternTrie::new and FieldExtractor::extract (SpecExtract)
    program,            \* "crossref" or "openalex"
    field_specs,        \* the field specifications, in command-line order
    document,           \* the JSON record
    trie,               \* the PatternTrie built from field_specs
    extracted,          \* the result of each extract call made so far
    epc,                \* "new", "built"
    \* external_sort::sort_csv by the number of rows and chunk files
    \* (SpecPasses)
    p_total,            \* rows of the input file
    p_chunk_size,       \* cli.chunk_size
    p_block_rows,       \* rows that fit a 256 MiB block of the file
    p_remaining,        \* rows the producer has not sent yet
    p_blocks,           \* blocks parsed
    p_chunks,           \* rows of each chunk file of the current pass
    p_first_chunks,     \* chunk files create_sorted_chunks returned
    p_pass,             \* pass_num
    p_out,              \* rows of the output file
    p_pc,               \* "chunking", "merging", "done"
    \* external_sort::merge_chunks, one heap operation at a time (SpecHeap)
    h_chunks,           \* the records of each chunk file given to the merge
    h_next,             \* per reader: records deserialized from it so far
    h_heap,             \* the entries of the BinaryHeap, in push order
    h_out,              \* records serialized to the output, in order
    h_i,                \* readers the first loop has visited
    h_pc                \* "heads", "merging", "done"

writerVars == <<cli_max_open_files, max_open_files, current_writers, open_file_lru, created_files,
                disk, next_row, batch_log, opens, flush_errors>>

pipeVars == <<files, batch_size, num_threads, queue, rx_alive, sender_dropped,
              worker, results, accepted, send_calls, wpc, wstat, mpc, agg_idx,
              stats, files_with_errors, run_result>>

transformVars == <<input_rows, chunk_size, num_workers, tpc, rd_off, leftover,
                   is_first_block, producer_done, blocks, sorter, chunk_index,
                   chunk_store, block_results, chunk_files, pass_num,
                   sorted_rows, gb_pos, current_work_id, current_doi,
                   records_for_current_work, calls, output>>

recordVars == <<variant, filter_group, filter_doi_prefix, r_batch_size,
                r_rx_alive, json_records, rec_pos, file_stats, batch_buffer, sent,
                skipped, proc_result>>

extractVars == <<program, field_specs, document, trie, extracted, epc>>

passVars == <<p_total, p_chunk_size, p_block_rows, p_remaining, p_blocks,
              p_chunks, p_first_chunks, p_pass, p_out, p_pc>>

heapVars == <<h_chunks, h_next, h_heap, h_out, h_i, h_pc>>

vars == <<writerVars, pipeVars, transformVars, recordVars, extractVars,
          passVars, heapVars>>

\* The value of a component's variables in a specification of another one.
WriterIdle ==
    /\ cli_max_open_files = 0 /\ max_open_files = 1
    /\ current_writers = {} /\ open_file_lru = <<>> /\ created_files = {}
    /\ disk = <<>> /\ next_row = 1 /\ batch_log = <<>> /\ opens = <<>>
    /\ flush_errors = {}

PipeIdle ==
    /\ files = <<>> /\ batch_size = 1 /\ num_threads = 1
    /\ queue = <<>> /\ rx_alive = TRUE /\ sender_dropped = FALSE
    /\ worker = <<>> /\ results = <<>> /\ accepted = <<>> /\ send_calls = <<>>
    /\ wpc = "start" /\ wstat = <<>> /\ mpc = "par_iter" /\ agg_idx = 1
    /\ stats = <<>> /\ files_with_errors = <<>> /\ run_result = "none"

TransformIdle ==
    /\ input_rows = <<>> /\ chunk_size = 1 /\ num_workers = 1 /\ tpc = "idle"
    /\ rd_off = 0 /\ leftover = <<>> /\ is_first_block = TRUE
    /\ producer_done = FALSE /\ blocks = <<>> /\ sorter = <<>>
    /\ chunk_index = 0 /\ chunk_store = <<>> /\ block_results = <<>>
    /\ chunk_files = <<>> /\ pass_num = 0 /\ sorted_rows = <<>> /\ gb_pos = 0
    /\ current_work_id = 0 /\ current_doi = ""
    /\ records_for_current_work = <<>> /\ calls = <<>> /\ output = <<>>

RecordsIdle ==
    /\ variant = "crossref" /\ filter_group = <<>> /\ filter_doi_prefix = <<>>
    /\ r_batch_size = 1 /\ r_rx_alive = TRUE /\ json_records = <<>> /\ rec_pos = 0
    /\ file_stats = <<>> /\ batch_buffer = <<>> /\ sent = <<>>
    /\ skipped = <<>> /\ proc_result = "idle"

ExtractIdle ==
    /\ program = "crossref" /\ field_specs = <<>> /\ document = <<>>
    /\ trie = <<>> /\ extracted = <<>> /\ epc = "idle"

PassesIdle ==
    /\ p_total = 0 /\ p_chunk_size = 1 /\ p_block_rows = 1 /\ p_remaining = 0
    /\ p_blocks = 0 /\ p_chunks = <<>> /\ p_first_chunks = 0 /\ p_pass = 0
    /\ p_out = 0 /\ p_pc = "idle"

HeapIdle ==
    /\ h_chunks = <<>> /\ h_next = <<>> /\ h_heap = <<>> /\ h_out = <<>>
    /\ h_i = 0 /\ h_pc = "idle"

-----------------------------------------------------------------------------
(* Generic helpers *)

Range(s) == {s[i] : i \in 1..Len(s)}

RECURSIVE SeqSum(_)
SeqSum(s) == IF s = <<>> THEN 0 ELSE Head(s) + SeqSum(Tail(s))

\* All orders in which the finite set S can be enumerated.
RECURSIVE Orders(_)
Orders(S) ==
    IF S = {} THEN {<<>>}
    ELSE UNION {{<<x>> \o o : o \in Orders(S \ {x})} : x \in S}

Max(a, b) == IF a >= b THEN a ELSE b

-----------------------------------------------------------------------------
(***************************************************************************)
(* OrganizedOutput: the sharded writer.                                    *)
(*                                                                         *)
(* A grouping key stands for its file <dir>/<key>.csv (format!("{}.csv",   *)
(* key) is injective), so created_files holds keys.  A file is the         *)
(* sequence of lines the csv writer accepted: the header line of key k is  *)
(* [id |-> 0, key |-> k], a data row carries the id it was emitted with.   *)
(* An I/O call either succeeds with its effect or fails without it.        *)
(***************************************************************************)

Keys == {"A", "B", "C"}

MaxOpenFiles == 2    \* cli.max_open_files ranges over 0..MaxOpenFiles
MaxBatchLen  == 2    \* rows per batch passed to write_batch
MaxRows      == 3    \* rows passed to write_batch in one run

HeaderLine(k) == [id |-> 0, key |-> k]

\* OrganizedOutput::new: the fields of a fresh writer.
OrganizedOutput_new(m) ==
    [ max_open_files  |-> Max(m, 1),
      current_writers |-> {},
      open_file_lru   |-> <<>>,
      created_files   |-> {},
      disk            |-> [k \in Keys |-> <<>>],
      opens           |-> [k \in Keys |-> 0] ]

\* The writer as one record, for the operators below.
Writer == [ max_open_files  |-> max_open_files,
            current_writers |-> current_writers,
            open_file_lru   |-> open_file_lru,
            created_files   |-> created_files,
            disk            |-> disk,
            opens           |-> opens ]

\* VecDeque: position(|x| x == key) then remove(pos): the first occurrence.
RECURSIVE RemoveFirst(_, _)
RemoveFirst(s, x) ==
    IF s = <<>> THEN <<>>
    ELSE IF Head(s) = x THEN Tail(s)
         ELSE <<Head(s)>> \o RemoveFirst(Tail(s), x)

lru_promote_keep(lru, key) == <<key>> \o lru

\* get_writer, hit path: move the key to the front of the LRU list.
lru_promote(lru, key) == <<key>> \o RemoveFirst(lru, key)

cache_full_off_by_one(o) == Cardinality(o.current_writers) > o.max_open_files

\* get_writer: the condition of the eviction loop.
cache_full(o) == Cardinality(o.current_writers) >= o.max_open_files

\* get_writer: while the cache is full, pop the tail of the LRU list and
\* close its writer; an empty list ends the loop.  A flush error on the
\* closed writer is only logged.
RECURSIVE evict_lru(_)
evict_lru(o) ==
    IF ~cache_full(o) \/ o.open_file_lru = <<>> THEN o
    ELSE LET n       == Len(o.open_file_lru)
             lru_key == o.open_file_lru[n]
         IN evict_lru([o EXCEPT !.open_file_lru   = SubSeq(@, 1, n - 1),
                                !.current_writers = @ \ {lru_key}])

file_needs_header_always(o, key) == TRUE

\* get_writer: the header is due when the path is not in created_files.
file_needs_header(o, key) == key \notin o.created_files

\* get_writer(key).  io is the fate of the file operations of a miss:
\* "ok", "open" (OpenOptions::open fails) or "header" (writing or flushing
\* the header fails).  Yields the writer state and whether a writer is
\* returned.
get_writer(o, key, io) ==
    IF key \in o.current_writers
    THEN [o  |-> [o EXCEPT !.open_file_lru = lru_promote(@, key)],
          ok |-> TRUE]
    ELSE LET e == evict_lru(o)
             h == file_needs_header(e, key)
         IN IF io = "open" \/ (h /\ io = "header")
            THEN [o |-> e, ok |-> FALSE]
            ELSE [o  |-> [e EXCEPT
                            !.disk[key]       = IF h THEN @ \o <<HeaderLine(key)>>
                                                ELSE @,
                            !.created_files   = IF h THEN @ \cup {key} ELSE @,
                            !.current_writers = @ \cup {key},
                            !.open_file_lru   = <<key>> \o @,
                            !.opens[key]      = @ + 1],
                  ok |-> TRUE]

grouped_records_all(batch, key) == batch

\* write_batch: the rows of the batch that carry the key, in batch order.
grouped_records(batch, key) == SelectSeq(batch, LAMBDA r : r.key = key)

NoFailure == [group |-> 0, op |-> "none", row |-> 0]

\* write_batch, the loop over grouped_records from its g-th group on.
\* order is the iteration order of the HashMap; fail names the one I/O call
\* that fails in this batch, if any.
RECURSIVE write_groups(_, _, _, _, _)
write_groups(o, batch, order, g, fail) ==
    IF g > Len(order) THEN [o |-> o, ok |-> TRUE]
    ELSE LET key  == order[g]
             mine == fail.group = g
             gw   == get_writer(o, key, IF mine THEN fail.op ELSE "ok")
         IN IF ~gw.ok THEN [o |-> gw.o, ok |-> FALSE]
            ELSE LET rows == grouped_records(batch, key)
                     cut  == mine /\ fail.op = "write" /\ fail.row <= Len(rows)
                     n    == IF cut THEN fail.row - 1 ELSE Len(rows)
                     o2   == [gw.o EXCEPT !.disk[key] = @ \o SubSeq(rows, 1, n)]
                 IN IF cut THEN [o |-> o2, ok |-> FALSE]
                    ELSE write_groups(o2, batch, order, g + 1, fail)

\* OrganizedOutput::write_batch.
write_batch(o, batch, order, fail) ==
    IF batch = <<>> THEN [o |-> o, ok |-> TRUE]
    ELSE write_groups(o, batch, order, 1, fail)

BatchKeys == UNION {[1..n -> Keys] : n \in 1..MaxBatchLen}

Failures(keys) ==
    {NoFailure}
    \cup {[group |-> g, op |-> p, row |-> 0] :
            g \in 1..Cardinality(Range(keys)), p \in {"open", "header"}}
    \cup {[group |-> g, op |-> "write", row |-> j] :
            g \in 1..Cardinality(Range(keys)), j \in 1..Len(keys)}

WriterInit ==
    /\ cli_max_open_files \in 0..MaxOpenFiles
    /\ LET o == OrganizedOutput_new(cli_max_open_files)
       IN /\ max_open_files  = o.max_open_files
          /\ current_writers = o.current_writers
          /\ open_file_lru   = o.open_file_lru
          /\ created_files   = o.created_files
          /\ disk            = o.disk
          /\ opens           = o.opens
    /\ next_row = 1
    /\ batch_log = <<>>
    /\ flush_errors = {}
    /\ PipeIdle
    /\ TransformIdle
    /\ RecordsIdle
    /\ ExtractIdle
    /\ PassesIdle
    /\ HeapIdle

\* One call of write_batch on a batch of fresh rows.
WriteBatch ==
    \E keys \in BatchKeys :
      /\ next_row + Len(keys) - 1 <= MaxRows
      /\ \E order \in Orders(Range(keys)), fail \in Failures(keys) :
           LET batch == [i \in 1..Len(keys) |->
                           [id |-> next_row + i - 1, key |-> keys[i]]]
               res   == write_batch(Writer, batch, order, fail)
           IN /\ current_writers' = res.o.current_writers
              /\ open_file_lru'   = res.o.open_file_lru
              /\ created_files'   = res.o.created_files
              /\ disk'            = res.o.disk
              /\ opens'           = res.o.opens
              /\ next_row'        = next_row + Len(keys)
              /\ batch_log'       = Append(batch_log, [rows |-> batch, ok |-> res.ok])
              /\ UNCHANGED <<cli_max_open_files, max_open_files, flush_errors>>
              /\ UNCHANGED <<pipeVars, transformVars, recordVars, extractVars, passVars, heapVars>>

flush_until_error(o, failing) ==
    IF failing = {}
    THEN [o |-> [o EXCEPT !.current_writers = {}, !.open_file_lru = <<>>],
          errors |-> {}]
    ELSE [o |-> o, errors |-> {CHOOSE k \in failing : TRUE}]

\* OrganizedOutput::flush: every cached writer is flushed and the failures
\* are collected, then the cache and the LRU list are cleared whatever
\* failed.  failing is the set of cached writers whose flush fails.
flush(o, failing) ==
    [o |-> [o EXCEPT !.current_writers = {}, !.open_file_lru = <<>>],
     errors |-> failing]

\* One call of OrganizedOutput::flush; flush_errors is what its Err lists.
Flush ==
    \E failing \in SUBSET current_writers :
      /\ flush_errors'    = flush(Writer, failing).errors
      /\ current_writers' = flush(Writer, failing).o.current_writers
      /\ open_file_lru'   = flush(Writer, failing).o.open_file_lru
      /\ UNCHANGED <<cli_max_open_files, max_open_files, created_files, disk,
                     next_row, batch_log, opens>>
      /\ UNCHANGED <<pipeVars, transformVars, recordVars, extractVars, passVars, heapVars>>

WriterNext == WriteBatch \/ Flush

SpecWriter == WriterInit /\ [][WriterNext]_vars

\* ---- the requests get_writer receives, one key at a time ----

MaxRequests == 5   \* write_batch calls of one key each in one run

\* write_batch on a batch of one row: one call of get_writer, then the row.
Request ==
    \E key \in Keys :
      /\ next_row <= MaxRequests
      /\ \E fail \in Failures(<<key>>) :
           LET batch == <<[id |-> next_row, key |-> key]>>
               res   == write_batch(Writer, batch, <<key>>, fail)
           IN /\ current_writers' = res.o.current_writers
              /\ open_file_lru'   = res.o.open_file_lru
              /\ created_files'   = res.o.created_files
              /\ disk'            = res.o.disk
              /\ opens'           = res.o.opens
              /\ next_row'        = next_row + 1
              /\ batch_log'       = Append(batch_log, [rows |-> batch, ok |-> res.ok])
              /\ UNCHANGED <<cli_max_open_files, max_open_files, flush_errors>>
              /\ UNCHANGED <<pipeVars, transformVars, recordVars, extractVars, passVars, heapVars>>

SpecAdmission == WriterInit /\ [][Request]_vars

-----------------------------------------------------------------------------
(* Claims on the sharded writer *)

HeaderCount(k) == Cardinality({i \in 1..Len(disk[k]) : disk[k][i].id = 0})

\* Number of times row r stands in the file of key k.
Occurrences(r, k) == Cardinality({i \in 1..Len(disk[k]) : disk[k][i] = r})

DataRows(k) == Len(disk[k]) - HeaderCount(k)

RECURSIVE SumOver(_, _)
SumOver(S, f) ==
    IF S = {} THEN 0
    ELSE LET x == CHOOSE y \in S : TRUE IN f[x] + SumOver(S \ {x}, f)

TotalDataRows == SumOver(Keys, [k \in Keys |-> DataRows(k)])

OkRows == SumOver(1..Len(batch_log),
                  [i \in 1..Len(batch_log) |->
                      IF batch_log[i].ok THEN Len(batch_log[i].rows) ELSE 0])

\* C1: at all times the cache holds at most M = max(1, max_open_files)
\* writers, and the LRU list holds exactly the keys of the cache, each once.
C1_LruInvariant ==
    /\ Cardinality(current_writers) <= Max(1, cli_max_open_files)
    /\ Range(open_file_lru) = current_writers
    /\ Len(open_file_lru) = Cardinality(current_writers)

\* C1 witness: the cache is full after an eviction and a later cache hit.
C1_Witness ==
    /\ Cardinality(current_writers) = max_open_files
    /\ created_files \ current_writers # {}
    /\ \E i \in 1..Len(batch_log) : i > 1 /\ batch_log[i].ok
          /\ batch_log[i].rows[1].key = batch_log[i - 1].rows[1].key

\* C2: a file that was opened holds exactly one header, as its first line,
\* however often it was evicted and re-opened; a file never opened is empty.
C2_HeaderOnce ==
    \A k \in Keys :
       /\ opens[k] >= 1 => /\ HeaderCount(k) = 1
                           /\ disk[k][1] = HeaderLine(k)
                           /\ k \in created_files
       /\ opens[k] = 0 => disk[k] = <<>>

\* C2 witness: a key's file was opened twice and took rows in both opens.
C2_Witness ==
    \E k \in Keys : opens[k] >= 2 /\ DataRows(k) >= 2 /\ k \notin current_writers

RowWrittenOnce(r) ==
    /\ Occurrences(r, r.key) = 1
    /\ \A k \in Keys \ {r.key} : Occurrences(r, k) = 0

Requested == [i \in 1..Len(batch_log) |-> batch_log[i].rows[1].key]

LastRequest(k) ==
    CHOOSE i \in 0..Len(batch_log) :
        /\ i > 0 => Requested[i] = k
        /\ \A j \in (i + 1)..Len(batch_log) : Requested[j] # k

\* The open sets the requests A, B, A, C, B leave with two writers.
Trajectory == <<{"A"}, {"A", "B"}, {"A", "B"}, {"A", "C"}, {"C", "B"}>>

\* C27, one request: a request for an open key moves it to the front of the
\* LRU list, leaving the other keys in their order, and closes and opens
\* nothing; a request for a key not open closes nothing while fewer than
\* max_open_files writers are open, and with max_open_files writers open
\* closes exactly the open key whose last request is the oldest; when the
\* request then opens the file it puts the key in front of the keys left.
C27_Step ==
    Len(batch_log') = Len(batch_log) + 1 =>
        LET key    == batch_log'[Len(batch_log')].rows[1].key
            closed == current_writers \ current_writers'
        IN  IF key \in current_writers
            THEN /\ current_writers' = current_writers
                 /\ opens' = opens
                 /\ open_file_lru' = <<key>> \o SelectSeq(open_file_lru,
                                                  LAMBDA k : k # key)
            ELSE /\ Cardinality(current_writers) < max_open_files => closed = {}
                 /\ Cardinality(current_writers) = max_open_files =>
                        \E e \in current_writers :
                            /\ closed = {e}
                            /\ \A k \in current_writers \ {e} :
                                   LastRequest(e) < LastRequest(k)
                 /\ key \in current_writers' =>
                        /\ current_writers' = (current_writers \ closed) \cup {key}
                        /\ open_file_lru' = <<key>> \o SelectSeq(open_file_lru,
                                                         LAMBDA k : k \notin closed)
                        /\ opens' = [opens EXCEPT ![key] = @ + 1]
                 /\ key \notin current_writers' => ~batch_log'[Len(batch_log')].ok

\* C27, the example: with two writers allowed and no failure, the requests
\* A, B, A, C, B leave the open sets {A}, {A,B}, {A,B}, {A,C}, {C,B}.
C27_Example ==
    (/\ max_open_files = 2
     /\ batch_log # <<>>
     /\ \A i \in 1..Len(batch_log) : batch_log[i].ok
     /\ Len(batch_log) <= 5
     /\ Requested = SubSeq(<<"A", "B", "A", "C", "B">>, 1, Len(batch_log))) =>
        current_writers = Trajectory[Len(batch_log)]

Flushed == batch_log' = batch_log

\* C35, one step.  A flush leaves the cache and the LRU list empty and the
\* created files and their contents as they were, whichever cached writers
\* failed to flush, and its one error lists cached writers only; a
\* write_batch adds no header line to a file that is in created_files, open
\* or not.
C35_Step ==
    /\ Flushed =>
          /\ current_writers' = {}
          /\ open_file_lru' = <<>>
          /\ created_files' = created_files
          /\ disk' = disk
          /\ flush_errors' \subseteq current_writers
    /\ ~Flushed =>
          \A k \in created_files :
             /\ k \in created_files'
             /\ Cardinality({i \in 1..Len(disk'[k]) : disk'[k][i].id = 0}) = HeaderCount(k)

\* C35: every step of the sharded writer is as C35_Step says.
C35_FinalFlush == [][C35_Step]_vars

\* C35 witness: a flush of two cached writers failed on both, the cache was
\* emptied, and a later write_batch re-opened one of the two files and
\* appended a row under its one header.
C35_Witness ==
    /\ Cardinality(flush_errors) = 2
    /\ \E k \in flush_errors :
          /\ current_writers = {k}
          /\ opens[k] = 2
          /\ HeaderCount(k) = 1
          /\ DataRows(k) = 2

-----------------------------------------------------------------------------
(***************************************************************************)
(* run_extraction_pipeline: rayon workers run JsonlProcessor::process on   *)
(* the input files and send row batches into a bounded channel; one writer *)
(* thread receives them; main collects the results, drops its sender,      *)
(* aggregates the statistics and joins the writer thread.                  *)
(*                                                                         *)
(* An input file is [openable, recs]: whether File::open succeeds and, per *)
(* parsed record, the number of triples the extractor yields for it (0 for *)
(* a record that is rejected or matches nothing).  A batch in the queue is *)
(* [file, first, n]: rows first..first+n-1 of that file's extracted rows.  *)
(***************************************************************************)

NumFiles == 2    \* input files per run: 1..NumFiles

\* The records of an openable file: an empty file, a file whose only record
\* yields nothing, one record of two rows, and a record of one row followed
\* by a record of two.
FileContents == {<<>>, <<0>>, <<2>>, <<1, 2>>}

BatchSizes   == {1, 2}
ThreadCounts == {1, 2}

InputFiles ==
    [openable : {TRUE}, recs : FileContents] \cup {[openable |-> FALSE, recs |-> <<>>]}

\* let channel_capacity = (num_threads * 4).max(8);
channel_capacity(n) == Max(n * 4, 8)

queue_has_room_always(q, n) == TRUE

\* A send on the bounded channel returns at once only while fewer than
\* channel_capacity batches are queued; otherwise it blocks.
queue_has_room(q, n) == Len(q) < channel_capacity(n)

\* FileStats::default() and the locals of process at its start.
WorkerStart ==
    [pc |-> "pending", rec |-> 0, k |-> 0, buf |-> 0,
     total |-> 0, by_member |-> 0]

\* process, from the state w up to its next sender.send or to the end of the
\* file: record by record, row by row.  member_counts and prefix_counts grow
\* by the whole record when it starts, field_counts and
\* total_fields_extracted by one per row pushed on batch_buffer.
batch_full_late(buf, bs) == buf > bs

\* if batch_buffer.len() >= batch_size
batch_full(buf, bs) == buf >= bs

RECURSIVE run_to_send(_, _, _)
run_to_send(recs, w, bs) ==
    IF w.rec = 0 \/ w.k = recs[w.rec]
    THEN IF w.rec + 1 > Len(recs) THEN [w |-> w, at |-> "eof"]
         ELSE run_to_send(recs,
                          [w EXCEPT !.rec = @ + 1, !.k = 0,
                                    !.by_member = @ + recs[w.rec + 1]],
                          bs)
    ELSE LET pushed == [w EXCEPT !.k = @ + 1, !.buf = @ + 1, !.total = @ + 1]
         IN IF batch_full(pushed.buf, bs) THEN [w |-> pushed, at |-> "send"]
            ELSE run_to_send(recs, pushed, bs)

FileStats(w) == [total_fields_extracted |-> w.total, member_counts |-> w.by_member]

NoResult == [error |-> "pending", stats |-> FileStats(WorkerStart)]

send_failed_ignored(w) == [w EXCEPT !.buf = 0]

\* process after sender.send returned Err: it returns the error result.
send_failed(w) == [w EXCEPT !.pc = "done", !.buf = 0]

\* IncrementalStats::new
IncrementalStats_new ==
    [total_field_records |-> 0, processed_files_ok |-> 0,
     processed_files_error |-> 0, members |-> 0]

\* IncrementalStats::aggregate_file_stats
aggregate_file_stats(st, fs) ==
    [st EXCEPT !.processed_files_ok  = @ + 1,
               !.total_field_records = @ + fs.total_fields_extracted,
               !.members             = @ + fs.member_counts]

increment_error_files_lost(st) == st

\* IncrementalStats::increment_error_files
increment_error_files(st) == [st EXCEPT !.processed_files_error = @ + 1]

aggregate_result_any(st, res) == aggregate_file_stats(st, res.stats)

\* The body of the aggregation loop of run_extraction_pipeline.
aggregate_result(st, res) ==
    IF res.error # "none" THEN increment_error_files(st)
    ELSE aggregate_file_stats(st, res.stats)

FileIds == 1..Len(files)

Running == {f \in FileIds : worker[f].pc = "running"}

PipeInit ==
    /\ files \in UNION {[1..n -> InputFiles] : n \in 1..NumFiles}
    /\ batch_size \in BatchSizes
    /\ num_threads \in ThreadCounts
    /\ queue = <<>>
    /\ rx_alive = TRUE
    /\ sender_dropped = FALSE
    /\ worker = [f \in FileIds |-> WorkerStart]
    /\ results = [f \in FileIds |-> NoResult]
    /\ accepted = [f \in FileIds |-> <<>>]
    /\ send_calls = [f \in FileIds |-> [ok |-> 0, failed |-> 0]]
    /\ wpc = "start"
    /\ wstat = [batches_written |-> 0, records_written |-> 0,
                write_errors |-> 0, flush_failed |-> FALSE,
                unflushed |-> FALSE, flush_calls |-> 0]
    /\ mpc = "par_iter"
    /\ agg_idx = 1
    /\ stats = IncrementalStats_new
    /\ files_with_errors = <<>>
    /\ run_result = "none"
    /\ WriterIdle
    /\ TransformIdle
    /\ RecordsIdle
    /\ ExtractIdle
    /\ PassesIdle
    /\ HeapIdle

\* A pool thread takes the next file: process begins with File::open.
StartFile(f) ==
    /\ mpc = "par_iter"
    /\ worker[f].pc = "pending"
    /\ Cardinality(Running) < num_threads
    /\ IF files[f].openable
       THEN /\ worker' = [worker EXCEPT ![f].pc = "running"]
            /\ UNCHANGED results
       ELSE /\ worker' = [worker EXCEPT ![f].pc = "done"]
            /\ results' = [results EXCEPT ![f] =
                              [error |-> "open", stats |-> FileStats(worker[f])]]
    /\ UNCHANGED <<files, batch_size, num_threads, queue, rx_alive,
                   sender_dropped, accepted, send_calls, wpc, wstat, mpc,
                   agg_idx, stats, files_with_errors, run_result>>
    /\ UNCHANGED <<writerVars, transformVars, recordVars, extractVars, passVars, heapVars>>

\* process runs to its next send (a full batch, or the residual at the end
\* of the file) and the send returns: Ok when the queue has room, Err when
\* the receiver is gone.  A send on a full queue blocks.
ProcessStep(f) ==
    /\ worker[f].pc = "running"
    /\ LET run   == run_to_send(files[f].recs, worker[f], batch_size)
           w     == run.w
           batch == [file |-> f, first |-> w.total - w.buf + 1, n |-> w.buf]
       IN IF run.at = "eof" /\ w.buf = 0
          THEN /\ worker' = [worker EXCEPT ![f] = [w EXCEPT !.pc = "done"]]
               /\ results' = [results EXCEPT ![f] =
                                 [error |-> "none", stats |-> FileStats(w)]]
               /\ UNCHANGED <<queue, accepted, send_calls>>
          ELSE IF ~rx_alive
          THEN LET w2 == send_failed(w)
               IN /\ worker' = [worker EXCEPT ![f] = w2]
                  /\ results' = IF w2.pc = "done"
                                THEN [results EXCEPT ![f] =
                                        [error |-> "send", stats |-> FileStats(w2)]]
                                ELSE results
                  /\ send_calls' = [send_calls EXCEPT ![f].failed = @ + 1]
                  /\ UNCHANGED <<queue, accepted>>
          ELSE /\ queue_has_room(queue, num_threads)
               /\ queue' = Append(queue, batch)
               /\ accepted' = [accepted EXCEPT ![f] = Append(@, batch)]
               /\ send_calls' = [send_calls EXCEPT ![f].ok = @ + 1]
               /\ IF run.at = "eof"
                  THEN /\ worker' = [worker EXCEPT ![f] =
                                        [w EXCEPT !.pc = "done", !.buf = 0]]
                       /\ results' = [results EXCEPT ![f] =
                                         [error |-> "none", stats |-> FileStats(w)]]
                  ELSE /\ worker' = [worker EXCEPT ![f] = [w EXCEPT !.buf = 0]]
                       /\ UNCHANGED results
    /\ UNCHANGED <<files, batch_size, num_threads, rx_alive, sender_dropped,
                   wpc, wstat, mpc, agg_idx, stats, files_with_errors, run_result>>
    /\ UNCHANGED <<writerVars, transformVars, recordVars, extractVars, passVars, heapVars>>

\* Writer thread: CsvWriterManager::new(..)? .  On failure the closure returns
\* the error and the Receiver it owns is dropped; the batches in the channel
\* are never received.
WriterConstruct ==
    /\ wpc = "start"
    /\ \E ok \in BOOLEAN :
         IF ok THEN wpc' = "recv" /\ UNCHANGED rx_alive
         ELSE wpc' = "failed" /\ rx_alive' = FALSE
    /\ UNCHANGED <<files, batch_size, num_threads, queue, sender_dropped, worker,
                   results, accepted, send_calls, wstat, mpc, agg_idx, stats,
                   files_with_errors, run_result>>
    /\ UNCHANGED <<writerVars, transformVars, recordVars, extractVars, passVars, heapVars>>

\* Writer thread: one iteration of `for batch in batch_receiver`.
WriterRecv ==
    /\ wpc = "recv"
    /\ queue # <<>>
    /\ queue' = Tail(queue)
    /\ \E ok \in BOOLEAN, partial \in BOOLEAN :
         wstat' = IF Head(queue).n = 0 THEN wstat
                  ELSE IF ok
                  THEN [wstat EXCEPT !.batches_written = @ + 1,
                                     !.records_written = @ + Head(queue).n,
                                     !.unflushed = TRUE]
                  ELSE [wstat EXCEPT !.write_errors = @ + 1,
                                     !.unflushed = @ \/ partial]
    /\ UNCHANGED <<files, batch_size, num_threads, rx_alive, sender_dropped,
                   worker, results, accepted, send_calls, wpc, mpc, agg_idx,
                   stats, files_with_errors, run_result>>
    /\ UNCHANGED <<writerVars, transformVars, recordVars, extractVars, passVars, heapVars>>

\* flush_all -> OutputStrategy::flush: every open writer is flushed (an error
\* is collected and the loop goes on), then the writers are closed; failed
\* says whether an error was collected.
flush_all(ws, failed) ==
    [ws EXCEPT !.unflushed = FALSE, !.flush_calls = @ + 1,
               !.flush_failed = failed]

drop_without_flush(ws, failed) == ws

\* Drop for CsvWriterManager: calls flush_all and logs its error; nothing is
\* returned and nothing panics.
CsvWriterManager_drop(ws, failed) == flush_all(ws, failed)

\* Writer thread: the channel is empty and every Sender is dropped, the loop
\* ends, the closure returns Ok(report_files_created()) and the manager is
\* dropped: Drop calls flush_all and logs its error.
WriterFinish ==
    /\ wpc = "recv"
    /\ queue = <<>>
    /\ sender_dropped
    /\ wpc' = "done"
    /\ \E failed \in BOOLEAN : wstat' = CsvWriterManager_drop(wstat, failed)
    /\ UNCHANGED <<files, batch_size, num_threads, queue, rx_alive,
                   sender_dropped, worker, results, accepted, send_calls, mpc,
                   agg_idx, stats, files_with_errors, run_result>>
    /\ UNCHANGED <<writerVars, transformVars, recordVars, extractVars, passVars, heapVars>>

batch_sender_kept == FALSE

\* drop(batch_sender): the clones made for the workers are gone when par_iter
\* has returned, so after this call no Sender is left.
drop_batch_sender == TRUE

\* main: par_iter().map(..).collect() has returned; drop(batch_sender).
MainDropSender ==
    /\ mpc = "par_iter"
    /\ \A f \in FileIds : worker[f].pc = "done"
    /\ mpc' = "aggregate"
    /\ sender_dropped' = drop_batch_sender
    /\ UNCHANGED <<files, batch_size, num_threads, queue, rx_alive, worker,
                   results, accepted, send_calls, wpc, wstat, agg_idx, stats,
                   files_with_errors, run_result>>
    /\ UNCHANGED <<writerVars, transformVars, recordVars, extractVars, passVars, heapVars>>

\* main: one iteration of `for result in processing_results`.
MainAggregate ==
    /\ mpc = "aggregate"
    /\ agg_idx <= Len(files)
    /\ stats' = aggregate_result(stats, results[agg_idx])
    /\ files_with_errors' = IF results[agg_idx].error # "none"
                            THEN Append(files_with_errors, agg_idx)
                            ELSE files_with_errors
    /\ agg_idx' = agg_idx + 1
    /\ UNCHANGED <<files, batch_size, num_threads, queue, rx_alive,
                   sender_dropped, worker, results, accepted, send_calls, wpc,
                   wstat, mpc, run_result>>
    /\ UNCHANGED <<writerVars, transformVars, recordVars, extractVars, passVars, heapVars>>

\* writer_thread.join() as run_extraction_pipeline reads it: files_created.
files_created == IF wpc = "done" THEN "Some" ELSE "None"

\* main: writer_thread.join(); every arm of the match yields a value and the
\* function returns Ok((final_stats, files_created, files_with_errors)); main
\* prints the summary and returns Ok(()).
MainJoin ==
    /\ mpc = "aggregate"
    /\ agg_idx > Len(files)
    /\ wpc \in {"done", "failed"}
    /\ mpc' = "returned"
    /\ run_result' = "Ok"
    /\ UNCHANGED <<files, batch_size, num_threads, queue, rx_alive,
                   sender_dropped, worker, results, accepted, send_calls, wpc,
                   wstat, agg_idx, stats, files_with_errors>>
    /\ UNCHANGED <<writerVars, transformVars, recordVars, extractVars, passVars, heapVars>>

PipeNext ==
    \/ \E f \in FileIds : StartFile(f)
    \/ \E f \in FileIds : ProcessStep(f)
    \/ WriterConstruct
    \/ WriterRecv
    \/ WriterFinish
    \/ MainDropSender
    \/ MainAggregate
    \/ MainJoin

SpecPipeline == PipeInit /\ [][PipeNext]_vars

\* Runs that fill the channel, every row a batch of its own: with one or two
\* threads, two files of five rows send ten batches into a channel of
\* capacity 8; with three threads, one file of thirteen rows sends thirteen
\* into a channel of capacity 12.
BackpressureInit ==
    /\ num_threads \in ThreadCounts \cup {3}
    /\ files = IF num_threads = 3
               THEN <<[openable |-> TRUE, recs |-> <<6, 7>>]>>
               ELSE [f \in 1..2 |-> [openable |-> TRUE, recs |-> <<2, 3>>]]
    /\ batch_size = 1
    /\ queue = <<>>
    /\ rx_alive = TRUE
    /\ sender_dropped = FALSE
    /\ worker = [f \in FileIds |-> WorkerStart]
    /\ results = [f \in FileIds |-> NoResult]
    /\ accepted = [f \in FileIds |-> <<>>]
    /\ send_calls = [f \in FileIds |-> [ok |-> 0, failed |-> 0]]
    /\ wpc = "start"
    /\ wstat = [batches_written |-> 0, records_written |-> 0,
                write_errors |-> 0, flush_failed |-> FALSE,
                unflushed |-> FALSE, flush_calls |-> 0]
    /\ mpc = "par_iter"
    /\ agg_idx = 1
    /\ stats = IncrementalStats_new
    /\ files_with_errors = <<>>
    /\ run_result = "none"
    /\ WriterIdle
    /\ TransformIdle
    /\ RecordsIdle
    /\ ExtractIdle
    /\ PassesIdle
    /\ HeapIdle

SpecBackpressure == BackpressureInit /\ [][PipeNext]_vars

\* The threads of the pipeline are scheduled by the operating system: the
\* rayon pool, the writer thread and the main thread each keep running while
\* they have a step to take.
PipeFairness ==
    /\ WF_vars(\E f \in FileIds : StartFile(f) \/ ProcessStep(f))
    /\ WF_vars(WriterConstruct \/ WriterRecv \/ WriterFinish)
    /\ WF_vars(MainDropSender \/ MainAggregate \/ MainJoin)

SpecBackpressureFair == BackpressureInit /\ [][PipeNext]_vars /\ PipeFairness

-----------------------------------------------------------------------------
(* Claims on the extraction pipeline *)

OkFiles(upto) == {f \in FileIds : f < upto /\ results[f].error = "none"}

ErrFiles(upto) == {f \in FileIds : f < upto /\ results[f].error # "none"}

TotalOf(S) == SumOver(S, [f \in S |-> results[f].stats.total_fields_extracted])

MembersOf(S) == SumOver(S, [f \in S |-> results[f].stats.member_counts])

\* Rows of a file the extractor yields over the whole file.
FileRows(f) == SeqSum(files[f].recs)

AcceptedRows(f) ==
    SumOver(1..Len(accepted[f]), [i \in 1..Len(accepted[f]) |-> accepted[f][i].n])

\* C4: the global counters are the sums of the per-file stats over the
\* results without error that the aggregation loop has read; when
\* run_extraction_pipeline has returned that is every file without error,
\* and the stats of files with an error are in no global counter.
C4_GlobalTotal ==
    /\ stats.total_field_records = TotalOf(OkFiles(agg_idx))
    /\ stats.members = MembersOf(OkFiles(agg_idx))
    /\ stats.processed_files_ok = Cardinality(OkFiles(agg_idx))
    /\ mpc = "returned" => agg_idx = Len(files) + 1

\* C4 witness: the run has returned with a file that failed after counting
\* rows and a file that succeeded with rows.
C4_Witness ==
    /\ mpc = "returned"
    /\ \E f \in FileIds : /\ results[f].error = "send"
                          /\ results[f].stats.total_fields_extracted > 0
    /\ \E f \in FileIds : /\ results[f].error = "none"
                          /\ results[f].stats.total_fields_extracted > 0

\* C8 as stated: a writer that could not be constructed, or whose final flush
\* failed, makes run_extraction_pipeline and main return an error.
C8_Original ==
    (mpc = "returned" /\ (wpc = "failed" \/ wstat.flush_failed))
        => run_result = "Err"

\* C9: when the run has returned every input file has exactly one result,
\* the files counted ok and in error add up to the input files, each error
\* is counted once, and every file without error was processed to its end:
\* all its rows were accepted by the queue.
C9_OneResultPerFile ==
    /\ stats.processed_files_error = Cardinality(ErrFiles(agg_idx))
    /\ mpc = "returned" =>
          /\ \A f \in FileIds : worker[f].pc = "done" /\ results[f].error # "pending"
          /\ stats.processed_files_ok + stats.processed_files_error = Len(files)
          /\ Len(files_with_errors) = stats.processed_files_error
    /\ \A f \in FileIds :
          results[f].error = "none" => AcceptedRows(f) = FileRows(f)

\* C9 witness: the run has returned, one file could not be opened and
\* another was processed whole.
C9_Witness ==
    /\ mpc = "returned"
    /\ \E f \in FileIds : results[f].error = "open"
    /\ \E f \in FileIds : results[f].error = "none" /\ AcceptedRows(f) > 0

IsPrefix(a, b) == Len(a) <= Len(b) /\ SubSeq(b, 1, Len(a)) = a

C10_State ==
    \A f \in FileIds :
       /\ send_calls[f].failed <= 1
       /\ send_calls[f].failed = 1 <=> results[f].error = "send"
       /\ results[f].error = "send" => worker[f].pc = "done"
       /\ send_calls[f].ok = Len(accepted[f])

C10_Step ==
    \A f \in FileIds :
       /\ IsPrefix(accepted[f], accepted'[f])
       /\ send_calls'[f].failed > send_calls[f].failed =>
             accepted' = accepted /\ queue' = queue
       /\ results[f].error = "send" =>
             accepted'[f] = accepted[f] /\ send_calls'[f] = send_calls[f]

\* C10: a send that reports the channel closed ends process at once with the
\* error result of that file (one failed send per file at most, and no send
\* after it); the failing step leaves the queue and the batches already
\* accepted as they are, and accepted batches are never changed later.
C10_ClosedQueue == []C10_State /\ [][C10_Step]_vars

\* C10 witness: a file had a batch accepted, then a send failed.
C10_Witness ==
    \E f \in FileIds : results[f].error = "send" /\ accepted[f] # <<>>

\* Rows of the batches of a that precede batch i.
RowsBefore(a, i) == SumOver(1..(i - 1), [j \in 1..(i - 1) |-> a[j].n])

\* C11: every batch the queue accepted from a file is non-empty and holds at
\* most batch_size rows; a batch of fewer rows is the last one of its file,
\* sent at the end of the file; each batch starts at the row after the last
\* row of the batch before it, and the batches of a file processed to its
\* end hold all its extracted rows.
C11_Batching ==
    \A f \in FileIds :
        LET a == accepted[f]
        IN  /\ \A i \in 1..Len(a) :
                   /\ a[i].n >= 1 /\ a[i].n <= batch_size
                   /\ a[i].first = 1 + RowsBefore(a, i)
                   /\ a[i].n < batch_size =>
                          i = Len(a) /\ results[f].error = "none"
            /\ results[f].error = "none" => AcceptedRows(f) = FileRows(f)

\* C11 witness: a file of three rows went out as a full batch of two and a
\* residual of one.
C11_Witness ==
    \E f \in FileIds :
        /\ results[f].error = "none" /\ batch_size = 2
        /\ Len(accepted[f]) = 2
        /\ accepted[f][1].n = 2 /\ accepted[f][2].n = 1

\* A worker that is inside sender.send on a full channel whose receiver is
\* alive.
SendBlocked(f) ==
    /\ worker[f].pc = "running" /\ rx_alive
    /\ Len(queue) = channel_capacity(num_threads)
    /\ LET run == run_to_send(files[f].recs, worker[f], batch_size)
       IN  ~(run.at = "eof" /\ run.w.buf = 0)

C12_State == Len(queue) <= channel_capacity(num_threads)

C12_Step ==
    /\ queue' # queue =>
          \/ /\ wpc = "recv" /\ queue # <<>> /\ queue' = Tail(queue)
             /\ worker' = worker /\ mpc' = mpc
          \/ /\ Len(queue) < channel_capacity(num_threads)
             /\ \E f \in FileIds :
                    /\ worker[f].pc = "running"
                    /\ accepted'[f] # accepted[f]
                    /\ queue' = Append(queue, accepted'[f][Len(accepted'[f])])
    /\ \A f \in FileIds :
          SendBlocked(f) => worker'[f] = worker[f] /\ accepted'[f] = accepted[f]

\* C12: the channel never holds more than max(8, 4 x num_threads) batches; a
\* batch enters it only from a running worker while there is room, a worker
\* whose send finds it full makes no step until a batch has been removed,
\* and the only step that removes a batch is the receive of the writer
\* thread.
C12_BoundedQueue == []C12_State /\ [][C12_Step]_vars

\* C12 witness: the channel is full, the writer thread is receiving and a
\* worker is blocked in send.
C12_Witness ==
    /\ wpc = "recv"
    /\ \E f \in FileIds : SendBlocked(f)
    /\ \E f \in FileIds : Len(accepted[f]) >= 1

AcceptedBatches == SumOver(FileIds, [f \in FileIds |-> Len(accepted[f])])

\* Iterations of the receive loop of the writer thread so far (no batch in
\* the channel is empty).
ReceivedBatches == wstat.batches_written + wstat.write_errors

C13_Drained ==
    wpc = "done" =>
        /\ sender_dropped /\ queue = <<>>
        /\ ReceivedBatches = AcceptedBatches

\* C13: with fair scheduling, once the writer is constructed the run comes
\* to its end: the writer thread leaves its loop and run_extraction_pipeline
\* returns; the writer thread is done only when every sender is dropped and
\* the channel is empty, having received every batch the channel accepted.
C13_Liveness ==
    /\ []C13_Drained
    /\ (wpc = "recv") ~> (wpc = "done" /\ mpc = "returned")

\* C13 witness: the run has returned after the writer received batches, one
\* of them sent by a worker that had been blocked on the full channel.
C13_Witness ==
    /\ mpc = "returned" /\ wpc = "done"
    /\ AcceptedBatches > channel_capacity(num_threads)
    /\ ReceivedBatches = AcceptedBatches

\* The counters the writer thread keeps (its only locals besides the manager);
\* write_errors is a history field of the model, not a variable of the code.
WriterCounters == <<wstat.batches_written, wstat.records_written>>

\* A step in which write_batch returned Err.
WriteFailedStep == wstat'.write_errors > wstat.write_errors

\* C14: a write error on a batch does not stop the writer thread, and the
\* failed batch is counted: the step on which write_batch fails changes a
\* counter of the writer thread, and the thread goes on receiving.
C14_Original ==
    [][WriteFailedStep => /\ wpc' = "recv"
                          /\ WriterCounters' # WriterCounters]_vars

\* C15: once the manager is constructed the writer thread has one way out,
\* and on it the manager is dropped and flush_all runs exactly once: no
\* written row stays unflushed; before that flush_all is never called. A
\* flush error at drop time does not keep the thread from returning
\* Ok(files created).
C15_FlushOnDrop ==
    /\ wpc = "done" => /\ wstat.flush_calls = 1
                       /\ ~wstat.unflushed
                       /\ files_created = "Some"
    /\ wpc \in {"start", "recv", "failed"} => /\ wstat.flush_calls = 0
                                               /\ ~wstat.flush_failed

\* C15 witness: the thread ended after writing rows, and the flush at drop
\* time failed.
C15_Witness ==
    /\ wpc = "done" /\ wstat.records_written > 0
    /\ wstat.flush_failed /\ mpc = "returned"

-----------------------------------------------------------------------------
(***************************************************************************)
(* parse_join_normalize_author_affiliation_metadata: the transform stage.  *)
(*                                                                         *)
(* The input CSV is a header line followed by one line per row.  A byte is *)
(* [row, pos, ch]: the row it belongs to (0 for the header), its position  *)
(* in that row and whether it is b'\n'; ch is all the producer looks at.   *)
(* A row of shape "line" is written as two bytes, x \n; a row of shape     *)
(* "quoted_newline" has a quoted field holding a line break and is written *)
(* as x \n x \n, the first \n inside the quotes.  A row whose ok is FALSE  *)
(* is one rdr.deserialize::<InputRecord>() returns an error for.           *)
(*                                                                         *)
(* A record is an InputRecord with the columns the stage reads: work_id    *)
(* (a number, ordered as String::cmp orders the ids), doi ("" for None),   *)
(* field_name, the indices captured from subfield_path by the three        *)
(* regexes (-1 when the regex does not match) and value.  Two ghost        *)
(* fields tell where a record came from: line, the input row, and part,    *)
(* "whole" or, for a record parsed from a piece of a row, "head"/"tail".   *)
(***************************************************************************)

BlockSize     == 4   \* BLOCK_SIZE (256 MiB), in bytes of the rows above
MergeWidth    == 2   \* MERGE_WIDTH (100), scaled to the chunk counts reached
MaxInputRows  == 3   \* rows of an enumerated input file: 0..MaxInputRows

ChunkSizes    == {1, 2}
WorkerCounts  == {1, 2}

DISPLAY_NAME     == "authorships.author.display_name"
RAW_AFFILIATION  == "authorships.affiliations.raw_affiliation_string"
INSTITUTION_IDS  == "authorships.affiliations.institution_ids"
INSTITUTIONS_ID  == "authorships.institutions.id"
INSTITUTIONS_ROR == "authorships.institutions.ror"

NoKey      == -1   \* current_work_id = None
GarbageKey == 0    \* first column of the tail of a cut row; sorts first

\* An index a regex captured as digits that u32 cannot hold (above
\* 4294967295); -1 stands for a regex that does not match.
Unparseable == -2

InputRecord(w, d, f, a, af, in, v) ==
    [work_id |-> w, doi |-> d, field_name |-> f, author |-> a, aff |-> af,
     inst |-> in, value |-> v]

InputLine(shape, ok, rec) == [shape |-> shape, ok |-> ok, rec |-> rec]

\* The rows enumerated input files are built from.
RowKinds ==
    { InputLine("line", TRUE,
          InputRecord(1, "10.1/a", DISPLAY_NAME, 0, -1, -1, "Ada L.")),
      InputLine("quoted_newline", TRUE,
          InputRecord(1, "10.1/a", RAW_AFFILIATION, 0, 0, -1, "CERN\nGeneva")),
      InputLine("line", TRUE,
          InputRecord(2, "10.1/b", RAW_AFFILIATION, 0, 0, -1, "MIT")),
      InputLine("line", FALSE,
          InputRecord(2, "", "", -1, -1, -1, "")) }

\* One work whose author 0 has one affiliation listing two institutions,
\* both with a ROR: the rows an extraction of institution_ids, institutions.id
\* and institutions.ror emits for it.
RorWork ==
    << InputLine("line", TRUE,
           InputRecord(1, "10.1/a", INSTITUTION_IDS, 0, 0, -1, "I1")),
       InputLine("line", TRUE,
           InputRecord(1, "10.1/a", INSTITUTION_IDS, 0, 0, -1, "I2")),
       InputLine("line", TRUE,
           InputRecord(1, "10.1/a", INSTITUTIONS_ID, 0, -1, 0, "I1")),
       InputLine("line", TRUE,
           InputRecord(1, "10.1/a", INSTITUTIONS_ROR, 0, -1, 0, "ror1")),
       InputLine("line", TRUE,
           InputRecord(1, "10.1/a", INSTITUTIONS_ID, 0, -1, 1, "I2")),
       InputLine("line", TRUE,
           InputRecord(1, "10.1/a", INSTITUTIONS_ROR, 0, -1, 1, "ror2")) >>

\* One work whose author 0 has affiliation 0 given by its raw string and
\* affiliation 1 given by its institution_ids alone, of which the first is
\* the id of no institution of the work.
AuthorsWork ==
    << InputLine("line", TRUE,
           InputRecord(1, "10.1/a", RAW_AFFILIATION, 0, 0, -1, "MIT")),
       InputLine("line", TRUE,
           InputRecord(1, "10.1/a", INSTITUTION_IDS, 0, 1, -1, "I1")),
       InputLine("line", TRUE,
           InputRecord(1, "10.1/a", INSTITUTION_IDS, 0, 1, -1, "I2")),
       InputLine("line", TRUE,
           InputRecord(1, "10.1/a", INSTITUTIONS_ID, 0, -1, 0, "I2")),
       InputLine("line", TRUE,
           InputRecord(1, "10.1/a", INSTITUTIONS_ROR, 0, -1, 0, "ror2")) >>

\* Three works of one row each; the author index of the row of work 2 is
\* 4294967296, digits that \d+ captures and u32 cannot hold.
IndexWork ==
    << InputLine("line", TRUE,
           InputRecord(1, "10.1/a", DISPLAY_NAME, 0, -1, -1, "Ada L.")),
       InputLine("line", TRUE,
           InputRecord(2, "10.1/b", DISPLAY_NAME, Unparseable, -1, -1, "Ada L.")),
       InputLine("line", TRUE,
           InputRecord(3, "10.1/c", RAW_AFFILIATION, 0, 0, -1, "MIT")) >>

\* One work with a row of a field outside authorships, a row of author 1 in
\* a field process_work_group has no case for, and the name of author 0.
FieldsWork ==
    << InputLine("line", TRUE,
           InputRecord(1, "10.1/a", "title", -1, -1, -1, "MIT")),
       InputLine("line", TRUE,
           InputRecord(1, "10.1/a", "authorships.author.id", 1, -1, -1, "A1")),
       InputLine("line", TRUE,
           InputRecord(1, "10.1/a", DISPLAY_NAME, 0, -1, -1, "Ada L.")) >>

\* One work of two rows that differ in the doi column.
DoiWork ==
    << InputLine("line", TRUE,
           InputRecord(1, "10.1/a", DISPLAY_NAME, 0, -1, -1, "Ada L.")),
       InputLine("line", TRUE,
           InputRecord(1, "10.1/b", RAW_AFFILIATION, 0, 0, -1, "MIT")) >>

\* A file of one row without quotes that is longer than a block.
LongLineFile ==
    << InputLine("long", TRUE,
           InputRecord(2, "10.1/b", RAW_AFFILIATION, 0, 0, -1, "MIT")) >>

TransformInputs ==
    UNION {[1..n -> RowKinds] : n \in 0..MaxInputRows}
        \cup {RorWork, AuthorsWork, LongLineFile, IndexWork, FieldsWork, DoiWork}

Min(a, b) == IF a <= b THEN a ELSE b

\* ---- the input as bytes ----

LongLine == 6   \* bytes of a line longer than a block

RowLen(shape) ==
    IF shape = "quoted_newline" THEN 4
    ELSE IF shape = "long" THEN LongLine ELSE 2

\* A row ends with a line feed; a quoted_newline row has one more in the
\* middle of its quoted field.
RowBytes(n, shape) ==
    [p \in 1..RowLen(shape) |->
        [row |-> n, pos |-> p,
         ch  |-> IF p = RowLen(shape) \/ (shape = "quoted_newline" /\ p = 2)
                 THEN "\n" ELSE "x"]]

RECURSIVE FileBytesFrom(_, _)
FileBytesFrom(rows, n) ==
    IF n > Len(rows) THEN <<>>
    ELSE RowBytes(n, rows[n].shape) \o FileBytesFrom(rows, n + 1)

FileBytes(rows) == RowBytes(0, "line") \o FileBytesFrom(rows, 1)

\* ---- phase 1: the producer ----

block_channel_capacity(n) == n * 2

\* One iteration of the producer loop.  After the trim the buffer is never
\* empty, so every iteration that read or carried a byte sends a block; the
\* loop is left with an empty leftover, so the send after the loop does
\* nothing unless the receiver is gone.
ProducerRead ==
    /\ tpc = "chunking" /\ ~producer_done
    /\ LET file       == FileBytes(input_rows)
           bytes_read == Min(BlockSize - Len(leftover), Len(file) - rd_off)
           buffer     == leftover \o SubSeq(file, rd_off + 1, rd_off + bytes_read)
           newlines   == {i \in 1..Len(buffer) : buffer[i].ch = "\n"}
           trim       == bytes_read > 0 /\ newlines # {}
           last_newline_pos == CHOOSE i \in newlines : \A j \in newlines : j <= i
           block      == IF trim THEN SubSeq(buffer, 1, last_newline_pos) ELSE buffer
           rest       == IF trim
                         THEN SubSeq(buffer, last_newline_pos + 1, Len(buffer))
                         ELSE <<>>
       IN  IF buffer = <<>>
           THEN /\ producer_done' = TRUE
                /\ UNCHANGED <<rd_off, leftover, is_first_block, blocks>>
           ELSE /\ Len(blocks) < block_channel_capacity(num_workers)
                /\ blocks' = Append(blocks, [bytes |-> block,
                                             has_header |-> is_first_block])
                /\ is_first_block' = FALSE
                /\ leftover' = rest
                /\ rd_off' = rd_off + bytes_read
                /\ producer_done' = (bytes_read = 0 /\ rest = <<>>)
    /\ UNCHANGED <<input_rows, chunk_size, num_workers, tpc, sorter, chunk_index,
                   chunk_store, block_results, chunk_files, pass_num,
                   sorted_rows, gb_pos, current_work_id, current_doi,
                   records_for_current_work, calls, output>>
    /\ UNCHANGED <<writerVars, pipeVars, recordVars, extractVars, passVars, heapVars>>

\* ---- phase 1: parsing a block ----

WholeRecord(rows, n) ==
    [line |-> n, part |-> "whole"] @@ rows[n].rec

\* What is left of the value when the row is cut inside its quoted field.
cut_value(v) == IF v = "CERN\nGeneva" THEN "CERN\n" ELSE v

\* The record a piece of a cut row is read as, when it is read as one: the
\* head keeps the leading columns, the tail starts with the rest of the cut
\* field.
FragmentRecord(rows, n, part) ==
    IF part = "head"
    THEN [line |-> n, part |-> "head"]
             @@ [rows[n].rec EXCEPT !.value = cut_value(@)]
    ELSE [line |-> n, part |-> "tail"]
             @@ InputRecord(GarbageKey, "", "", -1, -1, -1, "")

\* The records the csv reader can yield for the bytes of row n found in one
\* block, each as a sequence of zero or one record.  A whole row yields its
\* record, or nothing when deserializing it fails.  A lone line terminator is
\* an empty line, which the reader skips.  Any other piece of a row is
\* deserialized or rejected depending on how many columns it is left with.
segment_records(rows, n, seg) ==
    IF Len(seg) = RowLen(rows[n].shape)
    THEN IF rows[n].ok THEN {<<WholeRecord(rows, n)>>} ELSE {<<>>}
    ELSE IF Len(seg) = 1 /\ seg[1].ch = "\n"
    THEN {<<>>}
    ELSE {<<>>, <<FragmentRecord(rows, n,
                      IF seg[1].pos = 1 THEN "head" ELSE "tail")>>}

RECURSIVE records_from(_, _, _)
records_from(rows, bytes, todo) ==
    IF todo = {} THEN {<<>>}
    ELSE LET n   == CHOOSE m \in todo : \A k \in todo : m <= k
             seg == SelectSeq(bytes, LAMBDA b : b.row = n)
         IN  {h \o t : h \in segment_records(rows, n, seg),
                       t \in records_from(rows, bytes, todo \ {n})}

\* rdr.deserialize::<InputRecord>() over one block, errors skipped.  With
\* has_headers the first record of the block is taken as the header row.
parse_block(rows, block) ==
    LET present == {block.bytes[i].row : i \in 1..Len(block.bytes)}
        first   == block.bytes[1].row
    IN  records_from(rows, block.bytes,
                     IF block.has_header THEN present \ {first} ELSE present)

\* records.sort_by(|a, b| a.work_id.cmp(&b.work_id)): a stable sort.
RECURSIVE sort_by_work_id(_)
sort_by_work_id(s) ==
    IF s = <<>> THEN <<>>
    ELSE LET x    == s[Len(s)]
             init == sort_by_work_id(SubSeq(s, 1, Len(s) - 1))
         IN  SelectSeq(init, LAMBDA r : r.work_id <= x.work_id)
                 \o <<x>>
                 \o SelectSeq(init, LAMBDA r : r.work_id > x.work_id)

\* ---- phase 1: the chunk sorters (one closure call per block) ----

\* What a rayon thread holds while it works on a block: the records parsed
\* from it that are in no chunk yet, and the chunk files written for it.
SorterIdle == [busy |-> FALSE, records |-> <<>>, chunk_files |-> <<>>]

\* A rayon thread takes the next block from the channel and parses it.  A
\* block without records is finished at once: its closure returns no file.
SorterTake(w) ==
    /\ tpc = "chunking" /\ ~sorter[w].busy /\ blocks # <<>>
    /\ \E parsed \in parse_block(input_rows, Head(blocks)) :
           IF parsed = <<>>
           THEN /\ block_results' = Append(block_results, <<>>)
                /\ UNCHANGED sorter
           ELSE /\ sorter' = [sorter EXCEPT ![w] =
                       [busy |-> TRUE, records |-> parsed, chunk_files |-> <<>>]]
                /\ UNCHANGED block_results
    /\ blocks' = Tail(blocks)
    /\ UNCHANGED <<input_rows, chunk_size, num_workers, tpc, rd_off, leftover,
                   is_first_block, producer_done, chunk_index, chunk_store,
                   chunk_files, pass_num, sorted_rows, gb_pos,
                   current_work_id, current_doi, records_for_current_work,
                   calls, output>>
    /\ UNCHANGED <<writerVars, pipeVars, recordVars, extractVars, passVars, heapVars>>

\* Records of a block that make up its next chunk: chunk_size of them
\* (records.len() >= chunk_size holds after every push when chunk_size is 0),
\* or the residual at the end of the block.
next_chunk_len(records, cs) == Min(Max(cs, 1), Len(records))

fetch_add_lost(counter) == [old |-> counter, new |-> counter]

\* chunk_index.fetch_add(1, SeqCst): the value read and the value left, in
\* one atomic step.
fetch_add(counter) == [old |-> counter, new |-> counter + 1]

\* write_chunk: File::create on chunk_<idx>.csv.zst truncates a file of
\* that name and creates it otherwise.
write_chunk(store, idx, chunk) ==
    IF idx + 1 <= Len(store) THEN [store EXCEPT ![idx + 1] = chunk]
    ELSE Append(store, chunk)

\* The thread sorts the next chunk of its block, takes an index from the
\* shared counter and writes the chunk file; after the last chunk of the
\* block the closure returns the chunk files of the block.
SorterChunk(w) ==
    /\ tpc = "chunking" /\ sorter[w].busy
    /\ LET n     == next_chunk_len(sorter[w].records, chunk_size)
           chunk == sort_by_work_id(SubSeq(sorter[w].records, 1, n))
           fa    == fetch_add(chunk_index)
           idx   == fa.old
           rest  == SubSeq(sorter[w].records, n + 1, Len(sorter[w].records))
           paths == Append(sorter[w].chunk_files, idx)
       IN  /\ chunk_index' = fa.new
           /\ chunk_store' = write_chunk(chunk_store, idx, chunk)
           /\ IF rest = <<>>
              THEN /\ block_results' = Append(block_results, paths)
                   /\ sorter' = [sorter EXCEPT ![w] = SorterIdle]
              ELSE /\ sorter' = [sorter EXCEPT ![w] =
                          [busy |-> TRUE, records |-> rest, chunk_files |-> paths]]
                   /\ UNCHANGED block_results
    /\ UNCHANGED <<input_rows, chunk_size, num_workers, tpc, rd_off, leftover,
                   is_first_block, producer_done, blocks,
                   chunk_files, pass_num, sorted_rows, gb_pos, current_work_id,
                   current_doi, records_for_current_work, calls, output>>
    /\ UNCHANGED <<writerVars, pipeVars, recordVars, extractVars, passVars, heapVars>>

RECURSIVE flatten(_)
flatten(ss) == IF ss = <<>> THEN <<>> ELSE Head(ss) \o flatten(Tail(ss))

\* try_fold / try_reduce / flatten / collect: the per-block vectors in the
\* order rayon reduces them, which is the order the blocks were processed in
\* on one thread and any order on several.  The sort_by_key that follows
\* leaves that order as it is: the file stem of chunk_<idx>.csv.zst is
\* chunk_<idx>.csv, "<idx>.csv" does not parse as usize, every key is 0.
\* From here on chunk_files holds the contents of the files of the current
\* pass directory, which is all sort_csv reads again.
collected_orders(per_block, threads) ==
    IF threads = 1 THEN {per_block}
    ELSE {[i \in 1..Len(per_block) |-> per_block[o[i]]] :
              o \in Orders(1..Len(per_block))}

CollectChunks ==
    /\ tpc = "chunking" /\ producer_done /\ blocks = <<>>
    /\ \A w \in 1..num_workers : ~sorter[w].busy
    /\ \E order \in collected_orders(block_results, num_workers) :
           chunk_files' = LET idxs == flatten(order)
                          IN  [i \in 1..Len(idxs) |-> chunk_store[idxs[i] + 1]]
    /\ chunk_store' = <<>> /\ block_results' = <<>>
    /\ tpc' = "merging"
    /\ UNCHANGED <<input_rows, chunk_size, num_workers, rd_off, leftover,
                   is_first_block, producer_done, blocks, sorter, chunk_index,
                   pass_num, sorted_rows, gb_pos,
                   current_work_id, current_doi, records_for_current_work,
                   calls, output>>
    /\ UNCHANGED <<writerVars, pipeVars, recordVars, extractVars, passVars, heapVars>>

\* ---- phase 2: merging ----

\* merge_chunks: the sequences the heap can write for the given chunks.  The
\* heap holds the head of every reader that has one; HeapEntry::cmp looks at
\* work_id only, so any reader whose head has the least work_id can be the
\* one popped.
RECURSIVE merge_chunks(_)
merge_chunks(chunks) ==
    LET heads   == {i \in 1..Len(chunks) : chunks[i] # <<>>}
        minimal == {i \in heads : \A j \in heads :
                        chunks[i][1].work_id <= chunks[j][1].work_id}
    IN  IF heads = {} THEN {<<>>}
        ELSE UNION {{<<chunks[i][1]>> \o m :
                        m \in merge_chunks([chunks EXCEPT ![i] = Tail(@)])} :
                    i \in minimal}

\* One intermediate pass: chunk_files.chunks(MERGE_WIDTH), each group merged
\* into one intermediate, the intermediates kept in group order.
RECURSIVE merge_pass(_)
merge_pass(chunks) ==
    IF chunks = <<>> THEN {<<>>}
    ELSE LET n == Min(MergeWidth, Len(chunks))
         IN  {<<m>> \o rest :
                  m \in merge_chunks(SubSeq(chunks, 1, n)),
                  rest \in merge_pass(SubSeq(chunks, n + 1, Len(chunks)))}

more_passes_late(n) == n > MergeWidth + 1

\* while chunk_files.len() > MERGE_WIDTH
more_passes(n) == n > MergeWidth

MergePass ==
    /\ tpc = "merging" /\ more_passes(Len(chunk_files))
    /\ chunk_files' \in merge_pass(chunk_files)
    /\ pass_num' = pass_num + 1
    /\ UNCHANGED <<input_rows, chunk_size, num_workers, tpc, rd_off, leftover,
                   is_first_block, producer_done, blocks, sorter, chunk_index,
                   chunk_store, block_results, sorted_rows, gb_pos,
                   current_work_id, current_doi, records_for_current_work,
                   calls, output>>
    /\ UNCHANGED <<writerVars, pipeVars, recordVars, extractVars, passVars, heapVars>>

\* The final merge writes sorted_data.csv and removes the last pass directory.
FinalMerge ==
    /\ tpc = "merging" /\ ~more_passes(Len(chunk_files))
    /\ sorted_rows' \in merge_chunks(chunk_files)
    /\ chunk_files' = <<>>
    /\ tpc' = "grouping"
    /\ UNCHANGED <<input_rows, chunk_size, num_workers, rd_off, leftover,
                   is_first_block, producer_done, blocks, sorter, chunk_index,
                   chunk_store, block_results, pass_num, gb_pos,
                   current_work_id, current_doi, records_for_current_work,
                   calls, output>>
    /\ UNCHANGED <<writerVars, pipeVars, recordVars, extractVars, passVars, heapVars>>

\* ---- process_work_group ----

\* deunicode, to_lowercase, strip [^\w\s], trim: on the values of the model.
normalize_text(text) ==
    CASE text = "Ada L."       -> "ada l"
      [] text = "MIT"          -> "mit"
      [] text = "CERN\nGeneva" -> "cern\ngeneva"
      [] text = "CERN\n"       -> "cern"
      [] text = ""             -> ""

last_value(rows) == IF rows = <<>> THEN "" ELSE rows[Len(rows)].value

group_authors_named(records) ==
    {records[i].author :
        i \in {j \in 1..Len(records) : records[j].field_name = DISPLAY_NAME}} \ {-1}

\* The keys of `authors`: an entry is made for every row whose subfield_path
\* has an authorships[N] index, before the match on field_name.
group_authors(records) == {records[i].author : i \in 1..Len(records)} \ {-1}

Author(records, a) ==
    [sequence |-> a,
     display_name |-> last_value(SelectSeq(records, LAMBDA r :
                          r.author = a /\ r.field_name = DISPLAY_NAME))]

affiliation_keys(records) ==
    {<<records[i].author, records[i].aff>> :
        i \in {j \in 1..Len(records) :
                 /\ records[j].author # -1 /\ records[j].aff # -1
                 /\ records[j].field_name \in {RAW_AFFILIATION, INSTITUTION_IDS}}}

TempAffiliation(records, k) ==
    LET raw == SelectSeq(records, LAMBDA r :
                   r.author = k[1] /\ r.aff = k[2] /\ r.field_name = RAW_AFFILIATION)
        ids == SelectSeq(records, LAMBDA r :
                   r.author = k[1] /\ r.aff = k[2] /\ r.field_name = INSTITUTION_IDS)
    IN  [raw_string      |-> last_value(raw),
         institution_ids |-> [i \in 1..Len(ids) |-> ids[i].value],
         sequence        |-> IF raw = <<>> THEN 0 ELSE k[2]]

institution_keys(records) ==
    {<<records[i].author, records[i].inst>> :
        i \in {j \in 1..Len(records) :
                 /\ records[j].author # -1 /\ records[j].inst # -1
                 /\ records[j].field_name \in {INSTITUTIONS_ID, INSTITUTIONS_ROR}}}

\* id and ror are Options: <<>> for None, <<v>> for Some(v).
TempInstitution(records, k) ==
    LET id  == SelectSeq(records, LAMBDA r :
                   r.author = k[1] /\ r.inst = k[2] /\ r.field_name = INSTITUTIONS_ID)
        ror == SelectSeq(records, LAMBDA r :
                   r.author = k[1] /\ r.inst = k[2] /\ r.field_name = INSTITUTIONS_ROR)
    IN  [id  |-> IF id = <<>> THEN <<>> ELSE <<last_value(id)>>,
         ror |-> IF ror = <<>> THEN <<>> ELSE <<last_value(ror)>>]

\* The maps the loop over institutions.values() can build: an id listed by
\* several institutions keeps the ror of the one the HashMap yields last.
ror_lookups(records) ==
    LET full == {t \in {TempInstitution(records, k) : k \in institution_keys(records)} :
                    t.id # <<>> /\ t.ror # <<>>}
        ids  == {t.id[1] : t \in full}
    IN  {m \in [ids -> {t.ror[1] : t \in full}] :
            \A id \in ids : \E t \in full : t.id[1] = id /\ t.ror[1] = m[id]}

affiliation_ror_last(affiliation, ror_lookup) ==
    LET ids   == affiliation.institution_ids
        known == {i \in 1..Len(ids) : ids[i] \in DOMAIN ror_lookup}
    IN  IF known = {} THEN ""
        ELSE ror_lookup[ids[CHOOSE i \in known : \A j \in known : i >= j]]

affiliation_ror(affiliation, ror_lookup) ==
    LET ids   == affiliation.institution_ids
        known == {i \in 1..Len(ids) : ids[i] \in DOMAIN ror_lookup}
    IN  IF known = {} THEN ""
        ELSE ror_lookup[ids[CHOOSE i \in known : \A j \in known : i <= j]]

OutputRecord(work_id, doi, author, seq, name, ror) ==
    [work_id |-> work_id, doi |-> doi,
     author_sequence |-> author.sequence,
     author_name |-> author.display_name,
     normalized_author_name |-> normalize_text(author.display_name),
     affiliation_sequence |-> seq,
     affiliation_name |-> name,
     normalized_affiliation_name |-> normalize_text(name),
     affiliation_ror |-> ror]

\* The rows of one author: its affiliations in the order sort_by_key(sequence)
\* leaves them in, which for equal sequences is the order of the HashMap.
author_rows(work_id, doi, records, a, ror_lookup) ==
    LET author == Author(records, a)
        affs   == {k \in affiliation_keys(records) : k[1] = a}
        seq(k) == TempAffiliation(records, k).sequence
    IN  IF affs = {}
        THEN {<<OutputRecord(work_id, doi, author, 0, "", "")>>}
        ELSE {[i \in 1..Len(o) |->
                  LET affiliation == TempAffiliation(records, o[i])
                  IN  OutputRecord(work_id, doi, author, affiliation.sequence,
                                   affiliation.raw_string,
                                   affiliation_ror(affiliation, ror_lookup))] :
              o \in {p \in Orders(affs) :
                        \A i \in 1..Len(p) : \A j \in i..Len(p) :
                            seq(p[i]) <= seq(p[j])}}

RECURSIVE authors_rows(_, _, _, _, _)
authors_rows(work_id, doi, records, authors, ror_lookup) ==
    IF authors = {} THEN {<<>>}
    ELSE LET a == CHOOSE x \in authors : \A y \in authors : x <= y
         IN  {h \o t :
                 h \in author_rows(work_id, doi, records, a, ror_lookup),
                 t \in authors_rows(work_id, doi, records, authors \ {a}, ror_lookup)}

\* str::parse::<u32> on the digits a regex captured: Ok when the number fits.
parse(index) == index # Unparseable

\* The loop over the records of a group leaves the function through `?`
\* when the author index of a row does not parse, or the affiliation or
\* institution index the row's field_name makes it read.
index_error(records) ==
    \E i \in 1..Len(records) :
       LET r == records[i]
       IN  /\ r.author # -1
           /\ \/ ~parse(r.author)
              \/ /\ r.field_name \in {RAW_AFFILIATION, INSTITUTION_IDS}
                 /\ r.aff # -1 /\ ~parse(r.aff)
              \/ /\ r.field_name \in {INSTITUTIONS_ID, INSTITUTIONS_ROR}
                 /\ r.inst # -1 /\ ~parse(r.inst)

\* The sequences of rows one call that returns Ok can write.
process_work_group(work_id, doi, records) ==
    UNION {authors_rows(work_id, doi, records, group_authors(records), m) :
              m \in ror_lookups(records)}

\* ---- the group-by loop of main ----

key_changed_never(current, record) == FALSE

\* current_work_id.is_some() && current_work_id != record.work_id
key_changed(current, record) == current # NoKey /\ current # record.work_id

next_doi_first(current, doi, record) ==
    IF current = record.work_id THEN doi ELSE record.doi

\* current_doi = record.doi.clone(), on every row read.
next_doi(current, doi, record) == record.doi

Call(work_id, doi, records) == [work_id |-> work_id, doi |-> doi, records |-> records]

\* One iteration of the loop over the sorted file.  An Err of
\* process_work_group leaves main through `?`: tpc becomes "failed" and the
\* group that failed stays in records_for_current_work.
GroupRow ==
    /\ tpc = "grouping" /\ gb_pos < Len(sorted_rows)
    /\ LET record == sorted_rows[gb_pos + 1]
       IN  IF key_changed(current_work_id, record)
              /\ index_error(records_for_current_work)
           THEN /\ tpc' = "failed"
                /\ UNCHANGED <<calls, output, records_for_current_work,
                               current_work_id, current_doi, gb_pos>>
           ELSE /\ IF key_changed(current_work_id, record)
                   THEN /\ \E written \in process_work_group(current_work_id,
                                   current_doi, records_for_current_work) :
                               output' = output \o written
                        /\ calls' = Append(calls, Call(current_work_id, current_doi,
                                                       records_for_current_work))
                        /\ records_for_current_work' = <<record>>
                   ELSE /\ records_for_current_work' =
                               Append(records_for_current_work, record)
                        /\ UNCHANGED <<calls, output>>
                /\ current_work_id' = record.work_id
                /\ current_doi' = next_doi(current_work_id, current_doi, record)
                /\ gb_pos' = gb_pos + 1
                /\ tpc' = tpc
    /\ UNCHANGED <<input_rows, chunk_size, num_workers, rd_off, leftover,
                   is_first_block, producer_done, blocks, sorter, chunk_index,
                   chunk_store, block_results, chunk_files, pass_num,
                   sorted_rows>>
    /\ UNCHANGED <<writerVars, pipeVars, recordVars, extractVars, passVars, heapVars>>

\* End of the sorted file: the residual group, then the output is flushed.
GroupEnd ==
    /\ tpc = "grouping" /\ gb_pos = Len(sorted_rows)
    /\ IF current_work_id # NoKey /\ records_for_current_work # <<>>
       THEN IF index_error(records_for_current_work)
            THEN /\ tpc' = "failed"
                 /\ UNCHANGED <<calls, output>>
            ELSE /\ \E written \in process_work_group(current_work_id, current_doi,
                                                     records_for_current_work) :
                        output' = output \o written
                 /\ calls' = Append(calls, Call(current_work_id, current_doi,
                                                records_for_current_work))
                 /\ tpc' = "done"
       ELSE /\ tpc' = "done"
            /\ UNCHANGED <<calls, output>>
    /\ UNCHANGED <<input_rows, chunk_size, num_workers, rd_off, leftover,
                   is_first_block, producer_done, blocks, sorter, chunk_index,
                   chunk_store, block_results, chunk_files, pass_num,
                   sorted_rows, gb_pos, current_work_id, current_doi,
                   records_for_current_work>>
    /\ UNCHANGED <<writerVars, pipeVars, recordVars, extractVars, passVars, heapVars>>

TransformInit ==
    /\ input_rows \in TransformInputs
    /\ chunk_size \in ChunkSizes
    /\ num_workers \in WorkerCounts
    /\ tpc = "chunking"
    /\ rd_off = 0 /\ leftover = <<>> /\ is_first_block = TRUE
    /\ producer_done = FALSE /\ blocks = <<>>
    /\ sorter = [w \in 1..num_workers |-> SorterIdle]
    /\ chunk_index = 0 /\ chunk_store = <<>> /\ block_results = <<>>
    /\ chunk_files = <<>> /\ pass_num = 0 /\ sorted_rows = <<>> /\ gb_pos = 0
    /\ current_work_id = NoKey /\ current_doi = ""
    /\ records_for_current_work = <<>> /\ calls = <<>> /\ output = <<>>
    /\ WriterIdle
    /\ PipeIdle
    /\ RecordsIdle
    /\ ExtractIdle
    /\ PassesIdle
    /\ HeapIdle

TransformNext ==
    \/ ProducerRead
    \/ \E w \in 1..num_workers : SorterTake(w)
    \/ \E w \in 1..num_workers : SorterChunk(w)
    \/ CollectChunks
    \/ MergePass
    \/ FinalMerge
    \/ GroupRow
    \/ GroupEnd

SpecTransform == TransformInit /\ [][TransformNext]_vars

-----------------------------------------------------------------------------
(* Properties of the transform stage *)

SeqToBag(s) == [x \in Range(s) |-> Cardinality({i \in 1..Len(s) : s[i] = x})]

SortedByKey(s) == \A i \in 1..(Len(s) - 1) : s[i].work_id <= s[i + 1].work_id

\* The rows of the input file that deserialize as an InputRecord, in file
\* order: what a lenient reader of the whole file accepts.
ParserAccepted(rows) ==
    LET ok == SelectSeq([n \in 1..Len(rows) |-> n], LAMBDA n : rows[n].ok)
    IN  [i \in 1..Len(ok) |-> WholeRecord(rows, ok[i])]

\* C5 (as stated): once sort_csv has returned, sorted_data.csv holds exactly
\* the multiset of the input rows the lenient parser accepts, none lost and
\* none duplicated, and its work_id column is non-decreasing.
C5_Original ==
    tpc \in {"grouping", "done"} =>
        /\ SeqToBag(sorted_rows) = SeqToBag(ParserAccepted(input_rows))
        /\ SortedByKey(sorted_rows)

\* The groups of a file: per key, in order of first appearance, the rows of
\* that key in file order.
RECURSIVE GroupsOf(_)
GroupsOf(s) ==
    IF s = <<>> THEN <<>>
    ELSE LET k == s[1].work_id
         IN  <<[work_id |-> k,
                records |-> SelectSeq(s, LAMBDA r : r.work_id = k)]>>
                 \o GroupsOf(SelectSeq(s, LAMBDA r : r.work_id # k))

CallGroups ==
    [i \in 1..Len(calls) |->
        [work_id |-> calls[i].work_id, records |-> calls[i].records]]

\* C6: on the sorted file, the calls of process_work_group made so far are
\* the first groups of the file, each with exactly the rows of its key in
\* file order, and while the loop runs they hold, together with the buffer,
\* exactly the rows read;
\* when the loop is over there is one call per distinct key, the last group
\* included; every output row carries the key of exactly one call.
C6_GroupBy ==
    (tpc \in {"grouping", "done"} /\ SortedByKey(sorted_rows)) =>
        LET groups == GroupsOf(sorted_rows)
        IN  /\ IsPrefix(CallGroups, groups)
            /\ tpc = "grouping" =>
                   flatten([i \in 1..Len(calls) |-> calls[i].records])
                       \o records_for_current_work = SubSeq(sorted_rows, 1, gb_pos)
            /\ tpc = "done" =>
                   /\ CallGroups = groups
                   /\ \A i \in 1..Len(sorted_rows) :
                          Cardinality({j \in 1..Len(calls) :
                              calls[j].work_id = sorted_rows[i].work_id}) = 1
            /\ \A i \in 1..Len(output) :
                   Cardinality({j \in 1..Len(calls) :
                       calls[j].work_id = output[i].work_id}) = 1

\* A finished run over whole rows with two groups, the last of two rows, and
\* a row written for each.
C6_Witness ==
    /\ tpc = "done"
    /\ \A i \in 1..Len(sorted_rows) : sorted_rows[i].part = "whole"
    /\ Len(calls) >= 2
    /\ Len(calls[Len(calls)].records) >= 2
    /\ \A j \in 1..Len(calls) :
           \E i \in 1..Len(output) : output[i].work_id = calls[j].work_id

\* The rows the group-by can write for a file whose rows of equal key are in
\* the order of the input file: one group after the other, each called with
\* the doi of its last row.
RECURSIVE group_outputs(_)
group_outputs(groups) ==
    IF groups = <<>> THEN {<<>>}
    ELSE LET g == Head(groups)
         IN  {h \o t :
                 h \in process_work_group(g.work_id,
                                          g.records[Len(g.records)].doi,
                                          g.records),
                 t \in group_outputs(Tail(groups))}

outputs_in_input_order(rows) ==
    group_outputs(GroupsOf(sort_by_work_id(ParserAccepted(rows))))

\* C7 (as stated): a run that sorted exactly the rows of the input writes the
\* multiset of output rows the input determines, whatever the chunk size, the
\* number of workers, their interleaving and the order the merge gave to rows
\* of equal key.
C7_Original ==
    (/\ tpc = "done"
     /\ SeqToBag(sorted_rows) = SeqToBag(ParserAccepted(input_rows))) =>
        \E o \in outputs_in_input_order(input_rows) :
            SeqToBag(output) = SeqToBag(o)

\* ---- one call of process_work_group ----

\* A step that called process_work_group, the records it was called with and
\* the rows it wrote.
CallStep == Len(calls') = Len(calls) + 1

CallRecords == calls'[Len(calls')].records

WrittenRows == SubSeq(output', Len(output) + 1, Len(output'))

\* The author indexes and, per author, the affiliation indexes found in the
\* subfield paths of the rows of a group.
AuthorsOf(recs) == {recs[i].author : i \in 1..Len(recs)} \ {-1}

AffiliationsOf(recs, a) ==
    {recs[i].aff :
        i \in {j \in 1..Len(recs) :
                 /\ recs[j].author = a /\ recs[j].aff # -1
                 /\ recs[j].field_name \in {RAW_AFFILIATION, INSTITUTION_IDS}}}

NoAffiliation(row) ==
    /\ row.affiliation_sequence = 0 /\ row.affiliation_name = ""
    /\ row.normalized_affiliation_name = "" /\ row.affiliation_ror = ""

RowsOfAuthor(rows, a) == SelectSeq(rows, LAMBDA r : r.author_sequence = a)

\* C24 (as stated): a call writes, per author of the group, one row per
\* affiliation of the author, or one row with empty affiliation fields and
\* affiliation_sequence 0 when the author has none, and no other row; the
\* rows are in increasing author sequence and, within an author, in
\* increasing affiliation sequence.
C24_Step ==
    CallStep =>
        LET recs == CallRecords
            rows == WrittenRows
        IN  /\ \A i \in 1..Len(rows) : rows[i].author_sequence \in AuthorsOf(recs)
            /\ \A a \in AuthorsOf(recs) :
                   LET n == Cardinality(AffiliationsOf(recs, a))
                   IN  /\ Len(RowsOfAuthor(rows, a)) = IF n = 0 THEN 1 ELSE n
                       /\ n = 0 => NoAffiliation(RowsOfAuthor(rows, a)[1])
            /\ \A i \in 1..Len(rows) : \A j \in (i + 1)..Len(rows) :
                   \/ rows[i].author_sequence < rows[j].author_sequence
                   \/ /\ rows[i].author_sequence = rows[j].author_sequence
                      /\ rows[i].affiliation_sequence < rows[j].affiliation_sequence

C24_Original == [][C24_Step]_vars

\* The ROR of the first of the listed ids that the map knows, or nothing.
FirstKnownRor(ids, m) ==
    IF \A i \in 1..Len(ids) : ids[i] \notin DOMAIN m THEN ""
    ELSE LET first == CHOOSE i \in 1..Len(ids) :
                          /\ ids[i] \in DOMAIN m
                          /\ \A j \in 1..(i - 1) : ids[j] \notin DOMAIN m
         IN  m[ids[first]]

\* The values of the institution_ids rows of an affiliation, in row order.
ListedIds(recs, a, x) ==
    LET ids == SelectSeq(recs, LAMBDA r :
                   r.author = a /\ r.aff = x /\ r.field_name = INSTITUTION_IDS)
    IN  [i \in 1..Len(ids) |-> ids[i].value]

RawString(recs, a, x) ==
    last_value(SelectSeq(recs, LAMBDA r :
        r.author = a /\ r.aff = x /\ r.field_name = RAW_AFFILIATION))

\* C25: the affiliation_ror of every row a call writes is, for one id-to-ror
\* map of the institutions of the group that have both id and ror, the ROR
\* of the first id, in row order, of the institution_ids of the affiliation
\* the row was built from that the map knows, and empty when it knows none.
C25_Step ==
    CallStep =>
        LET recs == CallRecords
            rows == WrittenRows
        IN  \E m \in ror_lookups(recs) :
                \A i \in 1..Len(rows) :
                    LET a == rows[i].author_sequence
                    IN  IF AffiliationsOf(recs, a) = {}
                        THEN rows[i].affiliation_ror = ""
                        ELSE \E x \in AffiliationsOf(recs, a) :
                               /\ rows[i].affiliation_name = RawString(recs, a, x)
                               /\ rows[i].affiliation_ror =
                                      FirstKnownRor(ListedIds(recs, a, x), m)

C25_AffiliationRor == [][C25_Step]_vars

\* C25 witness: the work whose affiliation lists I1, unknown, before I2 was
\* grouped whole in that order, and its rows carry ror2 for that affiliation
\* and nothing for the affiliation that lists no id.
C25_Witness ==
    /\ tpc = "done" /\ Len(calls) = 1
    /\ ListedIds(calls[1].records, 0, 1) = <<"I1", "I2">>
    /\ \E m \in ror_lookups(calls[1].records) : DOMAIN m = {"I2"}
    /\ \E i \in 1..Len(output) :
           output[i].affiliation_name = "" /\ output[i].affiliation_ror = "ror2"
    /\ \E i \in 1..Len(output) :
           output[i].affiliation_name = "MIT" /\ output[i].affiliation_ror = ""

\* C26 (as stated): every row a call writes for an author with affiliations
\* carries as affiliation_sequence the affiliation index of the rows it was
\* built from, whichever kinds of rows these are.
C26_Step ==
    CallStep =>
        LET recs == CallRecords
            rows == WrittenRows
        IN  \A i \in 1..Len(rows) :
                LET a == rows[i].author_sequence
                IN  AffiliationsOf(recs, a) # {} =>
                        \E x \in AffiliationsOf(recs, a) :
                            /\ rows[i].affiliation_sequence = x
                            /\ rows[i].affiliation_name = RawString(recs, a, x)

C26_Original == [][C26_Step]_vars

\* ---- sort_csv on the works, cut into small chunks ----

\* Runs on the two works of several rows, with every chunk size and worker
\* count: the runs that leave the most chunk files to merge.
MergeInit ==
    /\ TransformInit
    /\ input_rows \in {RorWork, AuthorsWork}

\* sort_csv runs on the main thread and its loop goes on until it returns.
SpecMerge ==
    /\ MergeInit /\ [][TransformNext]_vars
    /\ WF_vars(MergePass) /\ WF_vars(FinalMerge)

RowsOf(chunks) == SeqToBag(flatten(chunks))

\* The chunks of the g-th group of chunk_files.chunks(W).
GroupOfPass(chunks, g) ==
    SubSeq(chunks, (g - 1) * MergeWidth + 1, Min(g * MergeWidth, Len(chunks)))

\* C31, one step of phase 2: a pass runs only on more than W chunks and
\* replaces them by ceil(n / W) intermediates, fewer than n, the g-th
\* holding exactly the rows of the g-th group of at most W chunks; the
\* final merge runs on at most W chunks and writes exactly their rows.
C31_Step ==
    /\ pass_num' = pass_num + 1 =>
           LET n == Len(chunk_files)
           IN  /\ n > MergeWidth
               /\ Len(chunk_files') = (n + MergeWidth - 1) \div MergeWidth
               /\ Len(chunk_files') < n
               /\ \A g \in 1..Len(chunk_files') :
                      /\ Len(GroupOfPass(chunk_files, g)) \in 1..MergeWidth
                      /\ SeqToBag(chunk_files'[g])
                             = RowsOf(GroupOfPass(chunk_files, g))
               /\ RowsOf(chunk_files') = RowsOf(chunk_files)
    /\ (tpc = "merging" /\ tpc' = "grouping") =>
           /\ Len(chunk_files) <= MergeWidth
           /\ SeqToBag(sorted_rows') = RowsOf(chunk_files)

BlockSent == tpc = "chunking" /\ rd_off' - Len(leftover') > rd_off - Len(leftover)

SentBlock == blocks'[Len(blocks')].bytes

\* The bytes start a line of the file and end one: the byte before them, if
\* any, and their last byte are line feeds, or they end the file.
WholeLines(file, from, to) ==
    /\ from > 1 => file[from - 1].ch = "\n"
    /\ to = Len(file) \/ file[to].ch = "\n"

\* C32 (as stated): every block sent holds whole lines only, begins with the
\* bytes carried over from the block before and continues the file where
\* that block ended, and when the producer is done the blocks sent are the
\* bytes of the file.
C32_Step ==
    LET file == FileBytes(input_rows)
        from == rd_off - Len(leftover)
        to   == rd_off' - Len(leftover')
    IN  /\ BlockSent =>
               /\ blocks' = Append(blocks, blocks'[Len(blocks')])
               /\ SentBlock = SubSeq(file, from + 1, to)
               /\ SubSeq(SentBlock, 1, Len(leftover)) = leftover
               /\ WholeLines(file, from + 1, to)
        /\ (~producer_done /\ producer_done') =>
               rd_off' = Len(file) /\ leftover' = <<>>
        /\ (tpc = "chunking" /\ ~BlockSent) =>
               rd_off' - Len(leftover') = rd_off - Len(leftover)

C32_Original == [][C32_Step]_vars

\* ---- the chunk files of phase 1 ----

\* The indexes of the chunk files written so far, per closure call.
IndexesTaken ==
    flatten(block_results)
        \o flatten([w \in 1..num_workers |-> sorter[w].chunk_files])

\* A sorter wrote a chunk file in this step, and which one.
ChunkWritten(w) ==
    /\ tpc = "chunking" /\ sorter[w].busy /\ sorter'[w] # sorter[w]

\* C33, one step: a chunk file written by a sorter is a new file and leaves
\* the files written before as they were; it holds at least one and at most
\* chunk_size records, which are the next records of the block the sorter
\* works on, sorted by work_id.
C33_Step ==
    \A w \in 1..num_workers :
        ChunkWritten(w) =>
            LET chunk == chunk_store'[Len(chunk_store')]
            IN  /\ Len(chunk_store') = Len(chunk_store) + 1
                /\ SubSeq(chunk_store', 1, Len(chunk_store)) = chunk_store
                /\ Len(chunk) \in 1..chunk_size
                /\ SeqToBag(chunk)
                       = SeqToBag(SubSeq(sorter[w].records, 1, Len(chunk)))
                /\ SortedByKey(chunk)

\* C33, the indexes: no two chunk files written so far have the same index.
C33_Unique ==
    tpc = "chunking" =>
        \A i \in 1..Len(IndexesTaken) : \A j \in 1..Len(IndexesTaken) :
            IndexesTaken[i] = IndexesTaken[j] => i = j

\* C33: under every interleaving of the sorters the chunk indexes are
\* distinct and each chunk file is written as C33_Step says.
C33_ChunkFiles == [][C33_Step]_vars /\ []C33_Unique

\* C33 witness: two sorters are at work on a block each and each has
\* written a chunk file of it.
C33_Witness ==
    /\ tpc = "chunking" /\ num_workers = 2
    /\ \A w \in 1..2 : sorter[w].busy /\ Len(sorter[w].chunk_files) >= 1

\* The rows of a group whose subfield_path has an authorships[N] index.
AuthorRows(recs) == SelectSeq(recs, LAMBDA r : r.author # -1)

\* The display name the rows of a group give the author a: the value of the
\* last display_name row of the author, "" when there is none.
NameOf(recs, a) ==
    last_value(SelectSeq(recs, LAMBDA r :
        r.author = a /\ r.field_name = DISPLAY_NAME))

\* C39, one call that returns Ok: the author sequences of the rows written
\* are exactly the author indexes found in the rows of the group, whatever
\* their field_name, so every such author has at least one row; the rows of
\* an author carry its display name, "" when the group has no display_name
\* row for it; and what is written is what the group without its rows
\* lacking an authorships[N] index can write.
C39_Step ==
    CallStep =>
        LET recs == CallRecords
            rows == WrittenRows
            call == calls'[Len(calls')]
        IN  /\ {rows[i].author_sequence : i \in 1..Len(rows)} = AuthorsOf(recs)
            /\ \A i \in 1..Len(rows) :
                   rows[i].author_name = NameOf(recs, rows[i].author_sequence)
            /\ rows \in process_work_group(call.work_id, call.doi, AuthorRows(recs))

\* C39: every call of process_work_group is as C39_Step says.
C39_Authors == [][C39_Step]_vars

\* C39 witness: a group with a row without author index, a row of author 1
\* in a field other than display_name and no display_name row of author 1
\* was written: author 1 has a row with an empty author_name.
C39_Witness ==
    /\ tpc = "done" /\ Len(calls) = 1
    /\ \E i \in 1..Len(calls[1].records) : calls[1].records[i].author = -1
    /\ \E i \in 1..Len(calls[1].records) :
          /\ calls[1].records[i].author = 1
          /\ calls[1].records[i].field_name = "authorships.author.id"
    /\ \E i \in 1..Len(output) :
          output[i].author_sequence = 1 /\ output[i].author_name = ""
    /\ \E i \in 1..Len(output) :
          output[i].author_sequence = 0 /\ output[i].author_name = "Ada L."

\* C40, one call: every row the call writes carries the doi column of the
\* last row of the group, the value current_doi holds when the group ends.
C40_Step ==
    CallStep =>
        LET recs == CallRecords
        IN  /\ calls'[Len(calls')].doi = recs[Len(recs)].doi
            /\ \A i \in 1..Len(WrittenRows) :
                   WrittenRows[i].doi = recs[Len(recs)].doi

\* C40: every call of process_work_group is as C40_Step says.
C40_LastDoi == [][C40_Step]_vars

\* C40 witness: a group whose first and last row differ in the doi column
\* was written with the doi of the last row.
C40_Witness ==
    \E c \in 1..Len(calls) :
       LET recs == calls[c].records
       IN  /\ Len(recs) >= 2
           /\ recs[1].doi # recs[Len(recs)].doi
           /\ \E i \in 1..Len(output) :
                  /\ output[i].work_id = calls[c].work_id
                  /\ output[i].doi = recs[Len(recs)].doi

\* The rows of the sorted file that carry the key k.
GroupOfKey(k) == SelectSeq(sorted_rows, LAMBDA r : r.work_id = k)

\* C36 (as stated): when the run has ended, with or without an index that
\* does not parse, every key of the sorted file whose rows hold no such
\* index was materialized by a call of process_work_group: an unparseable
\* index aborts only the group of its own row.
C36_Original ==
    tpc \in {"done", "failed"} =>
        \A i \in 1..Len(sorted_rows) :
           ~index_error(GroupOfKey(sorted_rows[i].work_id)) =>
               \E j \in 1..Len(calls) : calls[j].work_id = sorted_rows[i].work_id

-----------------------------------------------------------------------------
(***************************************************************************)
(* JsonlProcessor::process of crossref-fast-field-parse and of             *)
(* openalex-fast-field-parse: what the loop does with one parsed record.   *)
(* A string that the code splits is a sequence of tokens in which "/" is a *)
(* token of its own; an Option is a sequence of at most one value.         *)
(***************************************************************************)
MaxRecords == 2     \* records of an enumerated input file: 0..MaxRecords

None == <<>>

Some(x) == <<x>>

unwrap_or(opt, default) == IF opt = None THEN default ELSE opt[1]

\* "https://doi.org/"
DoiUrl == <<"https:", "/", "/", "doi.org", "/">>

strip_prefix(s, pre) ==
    IF IsPrefix(pre, s) THEN Some(SubSeq(s, Len(pre) + 1, Len(s))) ELSE None

RECURSIVE find_slash(_, _)
find_slash(s, i) ==
    IF i > Len(s) THEN 0
    ELSE IF s[i] = "/" THEN i ELSE find_slash(s, i + 1)

\* str::split_once('/')
split_once(s) ==
    LET i == find_slash(s, 1)
    IN  IF i = 0 THEN None
        ELSE Some(<<SubSeq(s, 1, i - 1), SubSeq(s, i + 1, Len(s))>>)

\* A parsed record, by the members the loop reads: id (OpenAlex "id"), group
\* (Crossref "member", OpenAlex primary_location.source.id), doi ("DOI" or
\* "doi"), prefix (Crossref "prefix") and the field names of the triples
\* the extractor returns for it.
JsonRecord(id, group, doi, prefix, fields) ==
    [id |-> id, group |-> group, doi |-> doi, prefix |-> prefix,
     fields |-> fields]

RecordKinds ==
    { JsonRecord(Some("W1"), Some("m1"), Some(<<"10.1", "/", "a">>), None,
                 <<"title", "author.family">>),
      JsonRecord(Some("W2"), Some("m2"), Some(<<"10.2", "/", "b">>), None,
                 <<"title">>),
      JsonRecord(Some("W3"), None, Some(<<"10.1", "/", "c">>), None,
                 <<"title", "title">>),
      JsonRecord(Some("W4"), Some("m1"), None, None, <<"title">>),
      JsonRecord(None, None, None, None, <<"title">>),
      JsonRecord(Some("W5"), Some("m1"), Some(<<"10.1", "/", "d">>), None,
                 <<>>),
      JsonRecord(Some("W6"), Some("m1"), Some(<<"10.1", "/", "e">>),
                 Some(<<"10.9">>), <<"title">>),
      JsonRecord(Some("W7"), Some("m1"), Some(<<"nodoi">>), None,
                 <<"title">>),
      JsonRecord(Some("W8"), Some("m1"),
                 Some(DoiUrl \o <<"10.1", "/", "f">>), None, <<"title">>) }

RecordFiles ==
    UNION {[1..n -> RecordKinds] : n \in 0..MaxRecords}

GroupFilters == {None, Some("m1")}

PrefixFilters == {None, Some(<<"10.1">>), Some(<<>>)}

RecordBatchSizes == {1, 2}

extract_doi(v, rec) ==
    IF rec.doi = None THEN None
    ELSE IF v = "openalex"
         THEN Some(unwrap_or(strip_prefix(rec.doi[1], DoiUrl), rec.doi[1]))
         ELSE rec.doi

extract_doi_prefix_from_doi(v, rec, doi) ==
    IF doi = None THEN None
    ELSE LET parts == split_once(doi[1])
         IN  IF parts = None THEN None ELSE Some(parts[1][1])

extract_doi_prefix(v, rec, doi) ==
    IF v = "crossref" /\ rec.prefix # None THEN rec.prefix
    ELSE IF doi = None THEN None
    ELSE LET parts == split_once(doi[1])
         IN  IF parts = None THEN None ELSE Some(parts[1][1])

\* extract_member_id / extract_source_id
extract_group(rec) == rec.group

\* The primary ID: the DOI for Crossref, the work id for OpenAlex.
primary_id(v, rec, doi) == IF v = "crossref" THEN doi ELSE rec.id

\* Option::is_none_or(|x| x != filter)
is_none_or_differs(opt, wanted) == opt = None \/ opt[1] # wanted

filtered_out(group, pfx) ==
    \/ filter_group # None /\ is_none_or_differs(group, filter_group[1])
    \/ filter_doi_prefix # None
         /\ is_none_or_differs(pfx, filter_doi_prefix[1])

missing_group_never_rejects(v) == FALSE

\* Crossref: `None => { records_missing_member += 1; continue; }`;
\* OpenAlex only counts the record and goes on.
missing_group_rejects(v) == v = "crossref"

\* The check the record fails first, in the order of the code.
skip_reason(v, rec) ==
    LET doi   == extract_doi(v, rec)
        group == extract_group(rec)
        pfx   == extract_doi_prefix(v, rec, doi)
    IN  IF filtered_out(group, pfx) THEN "filtered"
        ELSE IF missing_group_rejects(v) /\ group = None THEN "missing_group"
        ELSE IF primary_id(v, rec, doi) = None THEN "missing_id"
        ELSE "none"

NoSkips == [filtered_out |-> 0, missing_id |-> 0, missing_group |-> 0]

count_skip(sk, reason, group) ==
    CASE reason = "filtered"      -> [sk EXCEPT !.filtered_out = @ + 1]
      [] reason = "missing_id"    -> [sk EXCEPT !.missing_id = @ + 1]
      [] reason = "missing_group" -> [sk EXCEPT !.missing_group = @ + 1]
      [] reason = "none" ->
             IF group = None THEN [sk EXCEPT !.missing_group = @ + 1] ELSE sk

\* *map.entry(k).or_insert(0) += n
bump(m, k, n) ==
    [x \in DOMAIN m \cup {k} |->
        (IF x \in DOMAIN m THEN m[x] ELSE 0) + (IF x = k THEN n ELSE 0)]

RecordStats_default ==
    [unique_work_ids |-> {}, unique_dois |-> {}, field_counts |-> <<>>,
     group_counts |-> <<>>, prefix_counts |-> <<>>,
     total_fields_extracted |-> 0]

record_stats_per_record(st, v, rec, doi, group, pfx, n) ==
    [st EXCEPT
        !.unique_work_ids = IF v = "openalex" THEN @ \cup {rec.id[1]} ELSE @,
        !.unique_dois = IF doi # None THEN @ \cup {doi[1]} ELSE @,
        !.group_counts = IF group # None THEN bump(@, group[1], 1) ELSE @,
        !.prefix_counts = bump(@, unwrap_or(pfx, <<>>), 1)]

\* The updates made once per record, before the loop over its triples.
record_stats(st, v, rec, doi, group, pfx, n) ==
    [st EXCEPT
        !.unique_work_ids = IF v = "openalex" THEN @ \cup {rec.id[1]} ELSE @,
        !.unique_dois = IF doi # None THEN @ \cup {doi[1]} ELSE @,
        !.group_counts = IF group # None THEN bump(@, group[1], n) ELSE @,
        !.prefix_counts = bump(@, unwrap_or(pfx, <<>>), n)]

FieldData(v, rec, doi, group, pfx, field) ==
    [id |-> primary_id(v, rec, doi)[1], doi |-> doi, field_name |-> field,
     group |-> group, doi_prefix |-> unwrap_or(pfx, <<>>)]

\* The loop over the triples of one record: count, push, send a full batch;
\* a failed send returns at once.
RECURSIVE push_rows(_, _, _, _)
push_rows(ps, rows, bs, alive) ==
    IF rows = <<>> THEN ps
    ELSE
      LET st  == [ps.stats EXCEPT
                    !.field_counts = bump(@, Head(rows).field_name, 1),
                    !.total_fields_extracted = @ + 1]
          buf == Append(ps.buffer, Head(rows))
      IN  IF batch_full(Len(buf), bs)
          THEN IF alive
               THEN push_rows([ps EXCEPT !.stats = st, !.buffer = <<>>,
                                         !.sent = Append(@, buf)],
                              Tail(rows), bs, alive)
               ELSE [ps EXCEPT !.stats = st, !.buffer = <<>>,
                               !.error = TRUE]
          ELSE push_rows([ps EXCEPT !.stats = st, !.buffer = buf],
                         Tail(rows), bs, alive)

has_triples_always(rows) == TRUE

\* if !extracted_fields.is_empty()
has_triples(rows) == rows # <<>>

\* The rows the extractor's triples of a record become.
record_rows(v, rec) ==
    LET doi   == extract_doi(v, rec)
        group == extract_group(rec)
        pfx   == extract_doi_prefix(v, rec, doi)
    IN  [i \in 1..Len(rec.fields) |->
            FieldData(v, rec, doi, group, pfx, rec.fields[i])]

RecordsInit ==
    /\ variant \in {"crossref", "openalex"}
    /\ filter_group \in GroupFilters
    /\ filter_doi_prefix \in PrefixFilters
    /\ r_batch_size \in RecordBatchSizes
    /\ r_rx_alive \in BOOLEAN
    /\ json_records \in RecordFiles
    /\ rec_pos = 0
    /\ file_stats = RecordStats_default
    /\ batch_buffer = <<>>
    /\ sent = <<>>
    /\ skipped = NoSkips
    /\ proc_result = "running"
    /\ WriterIdle
    /\ PipeIdle
    /\ TransformIdle
    /\ ExtractIdle
    /\ PassesIdle
    /\ HeapIdle

\* One iteration of the loop over the lines, for a line that parsed.
ProcessRecord ==
    /\ proc_result = "running"
    /\ rec_pos < Len(json_records)
    /\ rec_pos' = rec_pos + 1
    /\ LET rec    == json_records[rec_pos + 1]
           doi    == extract_doi(variant, rec)
           group  == extract_group(rec)
           pfx    == extract_doi_prefix(variant, rec, doi)
           reason == skip_reason(variant, rec)
           rows   == record_rows(variant, rec)
       IN  /\ skipped' = count_skip(skipped, reason, group)
           /\ IF reason # "none" \/ ~has_triples(rows)
              THEN UNCHANGED <<file_stats, batch_buffer, sent, proc_result>>
              ELSE LET ps == push_rows(
                               [stats  |-> record_stats(file_stats, variant,
                                              rec, doi, group, pfx, Len(rows)),
                                buffer |-> batch_buffer,
                                sent   |-> sent,
                                error  |-> FALSE],
                               rows, r_batch_size, r_rx_alive)
                   IN  /\ file_stats' = ps.stats
                       /\ batch_buffer' = ps.buffer
                       /\ sent' = ps.sent
                       /\ proc_result' = IF ps.error THEN "send_error"
                                         ELSE "running"
    /\ UNCHANGED <<variant, filter_group, filter_doi_prefix, r_batch_size,
                   r_rx_alive, json_records>>
    /\ UNCHANGED <<writerVars, pipeVars, transformVars, extractVars, passVars, heapVars>>

\* After the loop: the residual batch is sent and the result is returned.
ProcessEnd ==
    /\ proc_result = "running"
    /\ rec_pos = Len(json_records)
    /\ IF batch_buffer = <<>>
       THEN proc_result' = "ok" /\ UNCHANGED <<batch_buffer, sent>>
       ELSE /\ batch_buffer' = <<>>
            /\ IF r_rx_alive
               THEN sent' = Append(sent, batch_buffer) /\ proc_result' = "ok"
               ELSE proc_result' = "send_error" /\ UNCHANGED sent
    /\ UNCHANGED <<variant, filter_group, filter_doi_prefix, r_batch_size,
                   r_rx_alive, json_records, rec_pos, file_stats, skipped>>
    /\ UNCHANGED <<writerVars, pipeVars, transformVars, extractVars, passVars, heapVars>>

RecordsNext == ProcessRecord \/ ProcessEnd

SpecRecords == RecordsInit /\ [][RecordsNext]_vars

\* The rows the file has handed over or holds in its buffer, in order.
EmittedRows == flatten(sent) \o batch_buffer

source_id_str_key(row) == IF row.group = None THEN "unknown" ELSE row.group[1]

\* The source_id column write_batch writes for a row (OpenAlex).
source_id_str(row) == IF row.group = None THEN "" ELSE row.group[1]

NoFilter == filter_group = None /\ filter_doi_prefix = None

\* The step handles a record without grouping key.
HandlesUngrouped ==
    /\ rec_pos' = rec_pos + 1
    /\ NoFilter
    /\ json_records[rec_pos + 1].group = None

C16_Crossref ==
    (variant = "crossref" /\ HandlesUngrouped) =>
        /\ file_stats' = file_stats
        /\ batch_buffer' = batch_buffer
        /\ sent' = sent
        /\ proc_result' = "running"

C16_OpenAlex ==
    (variant = "openalex" /\ HandlesUngrouped /\ r_rx_alive
        /\ json_records[rec_pos + 1].id # None) =>
        LET fields == json_records[rec_pos + 1].fields
        IN  /\ Len(EmittedRows') = Len(EmittedRows) + Len(fields)
            /\ SubSeq(EmittedRows', 1, Len(EmittedRows)) = EmittedRows
            /\ \A i \in 1..Len(fields) :
                 LET row == EmittedRows'[Len(EmittedRows) + i]
                 IN  /\ row.field_name = fields[i]
                     /\ row.id = json_records[rec_pos + 1].id[1]
                     /\ row.group = None
                     /\ source_id_str(row) = ""

\* C16: with no filter set, a Crossref record without member emits no row
\* and leaves the statistics as they were, while an OpenAlex record without
\* primary_location.source.id (and with a work id) has one row emitted per
\* extracted triple, each with an empty source_id.
C16_MissingGroup == [][C16_Crossref /\ C16_OpenAlex]_vars

\* C16 witness: an OpenAlex file, no filter, whose record without source id
\* has been handled and has rows among the emitted ones.
C16_Witness ==
    /\ variant = "openalex" /\ NoFilter /\ rec_pos > 0
    /\ json_records[rec_pos].group = None
    /\ json_records[rec_pos].id # None
    /\ \E i \in 1..Len(EmittedRows) :
         /\ EmittedRows[i].id = json_records[rec_pos].id[1]
         /\ source_id_str(EmittedRows[i]) = ""

\* The prefix the claim gives a Crossref record: the prefix member, else
\* the part of the DOI before its first "/", else none.
StatedPrefix(rec) ==
    IF rec.prefix # None THEN rec.prefix
    ELSE IF rec.doi = None \/ "/" \notin Range(rec.doi[1]) THEN None
    ELSE LET d == rec.doi[1]
             n == CHOOSE i \in 1..Len(d) :
                    d[i] = "/" /\ \A j \in 1..(i - 1) : d[j] # "/"
         IN  Some(SubSeq(d, 1, n - 1))

NewRows == SubSeq(EmittedRows', Len(EmittedRows) + 1, Len(EmittedRows'))

C21_Step ==
    (variant = "crossref" /\ rec_pos' = rec_pos + 1) =>
        LET rec == json_records[rec_pos + 1]
            pfx == StatedPrefix(rec)
        IN  /\ (pfx = None /\ filter_doi_prefix # None) =>
                  /\ skipped'.filtered_out = skipped.filtered_out + 1
                  /\ file_stats' = file_stats
                  /\ batch_buffer' = batch_buffer /\ sent' = sent
            /\ (r_rx_alive /\ file_stats' # file_stats) =>
                  /\ NewRows # <<>>
                  /\ \A i \in 1..Len(NewRows) :
                       NewRows[i].doi_prefix = unwrap_or(pfx, <<>>)
                  /\ unwrap_or(pfx, <<>>) \in DOMAIN file_stats'.prefix_counts
                  /\ filter_doi_prefix # None => pfx = filter_doi_prefix

\* C21: a Crossref record's prefix is its prefix member when it has one,
\* else the part of its DOI before the first "/"; a record with neither is
\* rejected by every doi_prefix filter, and without such a filter its rows
\* and its prefix counter carry the empty prefix.
C21_DoiPrefix == [][C21_Step]_vars

\* C21 witness: rows of the record with "prefix":"10.9" and DOI 10.1/e carry
\* 10.9, and rows of the record whose DOI has no "/" carry the empty prefix.
C21_Witness ==
    /\ variant = "crossref"
    /\ \E i \in 1..Len(EmittedRows) :
         EmittedRows[i].id = <<"10.1", "/", "e">>
           /\ EmittedRows[i].doi_prefix = <<"10.9">>
    /\ \E i \in 1..Len(EmittedRows) :
         EmittedRows[i].id = <<"nodoi">> /\ EmittedRows[i].doi_prefix = <<>>

\* The record a step of the loop handles.
HandledRecord == json_records[rec_pos + 1]

\* The check a Crossref record fails first in the order user filters, DOI,
\* member.
StatedReason(rec) ==
    LET doi    == extract_doi("crossref", rec)
        member == extract_group(rec)
        pfx    == extract_doi_prefix("crossref", rec, doi)
    IN  IF filtered_out(member, pfx) THEN "filtered"
        ELSE IF doi = None THEN "missing_id"
        ELSE IF member = None THEN "missing_group"
        ELSE "none"

\* C28 (as stated): a Crossref record is counted under the first check it
\* fails in the order user filters, missing DOI, missing member, and under
\* none when it passes them all; a record without DOI and without member is
\* counted as missing DOI when no filter is set.
C28_Step ==
    (variant = "crossref" /\ rec_pos' = rec_pos + 1) =>
        LET reason == StatedReason(HandledRecord)
        IN  skipped' =
                [filtered_out  |-> skipped.filtered_out
                                     + IF reason = "filtered" THEN 1 ELSE 0,
                 missing_id    |-> skipped.missing_id
                                     + IF reason = "missing_id" THEN 1 ELSE 0,
                 missing_group |-> skipped.missing_group
                                     + IF reason = "missing_group" THEN 1 ELSE 0]

C28_Original == [][C28_Step]_vars

\* The record is rejected: a filter is set and its value is absent or
\* different, the primary ID is missing, or (Crossref) the member is missing.
Rejected(v, rec) ==
    LET doi   == extract_doi(v, rec)
        group == extract_group(rec)
        pfx   == extract_doi_prefix(v, rec, doi)
    IN  \/ filtered_out(group, pfx)
        \/ primary_id(v, rec, doi) = None
        \/ v = "crossref" /\ group = None

\* C29: a step of the loop on a record that is rejected, or for which the
\* extractor yields no triple, leaves the statistics of the file, the batch
\* buffer and the batches sent as they were.
C29_Step ==
    (/\ rec_pos' = rec_pos + 1
     /\ Rejected(variant, HandledRecord) \/ HandledRecord.fields = <<>>) =>
        UNCHANGED <<file_stats, batch_buffer, sent>>

C29_Frame == [][C29_Step]_vars

\* C29 witness: after a record that left a row in the buffer and counts in
\* the statistics, the loop handled a record without triples, or a rejected
\* record with triples, and buffer and statistics are those of the first.
C29_Witness ==
    /\ rec_pos = 2 /\ batch_buffer # <<>>
    /\ file_stats.total_fields_extracted = 1
    /\ \/ ~Rejected(variant, json_records[2]) /\ json_records[2].fields = <<>>
       \/ Rejected(variant, json_records[2]) /\ json_records[2].fields # <<>>
    /\ Cardinality(file_stats.unique_dois) = 1

\* The sum of the counts of a HashMap<_, usize>.
CountSum(m) == SumOver(DOMAIN m, m)

\* C37: the FileStats of a Crossref file.  When process returns without
\* error, total_fields_extracted is the sum of field_counts, of
\* member_counts and of prefix_counts and the number of rows sent to the
\* queue; when it returns the error of a failed send, the field counts still
\* sum to the total and the member and prefix sums are at least the total.
C37_FileStats ==
    variant = "crossref" =>
        /\ proc_result = "ok" =>
              /\ file_stats.total_fields_extracted = CountSum(file_stats.field_counts)
              /\ file_stats.total_fields_extracted = CountSum(file_stats.group_counts)
              /\ file_stats.total_fields_extracted = CountSum(file_stats.prefix_counts)
              /\ file_stats.total_fields_extracted = Len(flatten(sent))
        /\ proc_result = "send_error" =>
              /\ file_stats.total_fields_extracted = CountSum(file_stats.field_counts)
              /\ file_stats.total_fields_extracted <= CountSum(file_stats.group_counts)
              /\ file_stats.total_fields_extracted <= CountSum(file_stats.prefix_counts)

\* C37 witness: a Crossref file of two records of different members and
\* three triples returned without error.
C37_Witness ==
    /\ variant = "crossref" /\ proc_result = "ok"
    /\ file_stats.total_fields_extracted = 3
    /\ Cardinality(DOMAIN file_stats.group_counts) = 2

\* The other case of C37: the send of a batch failed between two triples of
\* a record, and the member and prefix sums exceed the total.
C37_SendFailed ==
    /\ variant = "crossref" /\ proc_result = "send_error"
    /\ file_stats.total_fields_extracted < CountSum(file_stats.group_counts)
    /\ file_stats.total_fields_extracted < CountSum(file_stats.prefix_counts)

-----------------------------------------------------------------------------
(***************************************************************************)
(* OrganizedOutput of openalex-fast-field-parse: write_batch groups the    *)
(* rows by Option<SourceId> and names the shard of None "unknown".  The    *)
(* writer state is the one of the sharded writer above, over the files of  *)
(* ShardKeys; a data line carries the row id, the file it stands in and    *)
(* the source_id column written.                                           *)
(***************************************************************************)

SourceIds == {None, Some("S1"), Some("unknown")}

ShardKeys == {"S1", "unknown"}

\* source_id_opt.unwrap_or_else(|| SourceId("unknown".to_string()))
shard_key(source_id_opt) == unwrap_or(source_id_opt, "unknown")

ShardLine(key, row) == [id |-> row.id, key |-> key, source_id |-> source_id_str(row)]

\* write_batch, the loop over grouped_records from its g-th group on; order
\* is the iteration order of the HashMap<Option<SourceId>, _>.
RECURSIVE write_groups_openalex(_, _, _, _, _)
write_groups_openalex(o, batch, order, g, fail) ==
    IF g > Len(order) THEN [o |-> o, ok |-> TRUE]
    ELSE LET source_id == shard_key(order[g])
             mine == fail.group = g
             gw   == get_writer(o, source_id, IF mine THEN fail.op ELSE "ok")
         IN IF ~gw.ok THEN [o |-> gw.o, ok |-> FALSE]
            ELSE LET rows  == SelectSeq(batch, LAMBDA r : r.group = order[g])
                     cut   == mine /\ fail.op = "write" /\ fail.row <= Len(rows)
                     n     == IF cut THEN fail.row - 1 ELSE Len(rows)
                     lines == [i \in 1..n |-> ShardLine(source_id, rows[i])]
                     o2    == [gw.o EXCEPT !.disk[source_id] = @ \o lines]
                 IN IF cut THEN [o |-> o2, ok |-> FALSE]
                    ELSE write_groups_openalex(o2, batch, order, g + 1, fail)

\* OrganizedOutput::write_batch of openalex-fast-field-parse.
write_batch_openalex(o, batch, order, fail) ==
    IF batch = <<>> THEN [o |-> o, ok |-> TRUE]
    ELSE write_groups_openalex(o, batch, order, 1, fail)

ShardInit ==
    /\ cli_max_open_files \in 0..MaxOpenFiles
    /\ max_open_files = Max(cli_max_open_files, 1)
    /\ current_writers = {} /\ open_file_lru = <<>> /\ created_files = {}
    /\ disk = [k \in ShardKeys |-> <<>>]
    /\ opens = [k \in ShardKeys |-> 0]
    /\ next_row = 1
    /\ batch_log = <<>>
    /\ flush_errors = {}
    /\ PipeIdle
    /\ TransformIdle
    /\ RecordsIdle
    /\ ExtractIdle
    /\ PassesIdle
    /\ HeapIdle

\* One call of write_batch on a batch of fresh rows.
ShardBatch ==
    \E n \in 1..MaxBatchLen : \E srcs \in [1..n -> SourceIds] :
      /\ next_row + n - 1 <= MaxRows
      /\ \E order \in Orders(Range(srcs)), fail \in Failures(srcs) :
           LET batch == [i \in 1..n |->
                           [id |-> next_row + i - 1, group |-> srcs[i]]]
               res   == write_batch_openalex(Writer, batch, order, fail)
           IN /\ current_writers' = res.o.current_writers
              /\ open_file_lru'   = res.o.open_file_lru
              /\ created_files'   = res.o.created_files
              /\ disk'            = res.o.disk
              /\ opens'           = res.o.opens
              /\ next_row'        = next_row + n
              /\ batch_log'       = Append(batch_log, [rows |-> batch, ok |-> res.ok])
              /\ UNCHANGED <<cli_max_open_files, max_open_files, flush_errors>>
              /\ UNCHANGED <<pipeVars, transformVars, recordVars, extractVars, passVars, heapVars>>

SpecShards == ShardInit /\ [][ShardBatch]_vars

\* The rows passed to write_batch so far.
PassedRows == flatten([i \in 1..Len(batch_log) |-> batch_log[i].rows])

\* The lines of the file of key k that stand for the row r.
LinesOf(k, r) == {i \in 1..Len(disk[k]) : disk[k][i].id = r.id}

\* C38: a row whose source_id is absent is written to unknown.csv and to no
\* other file, with an empty source_id column; a row whose source_id is the
\* string unknown is written to the same file, with unknown in the column;
\* every other row goes to the file of its own source_id.  Every row of a
\* batch whose write_batch returned Ok is written once, and unknown.csv
\* starts with its one header.
C38_UnknownShard ==
    /\ \A n \in 1..Len(PassedRows) :
          LET r == PassedRows[n]
          IN  /\ \A k \in ShardKeys \ {shard_key(r.group)} : LinesOf(k, r) = {}
              /\ Cardinality(LinesOf(shard_key(r.group), r)) <= 1
              /\ r.group \in {None, Some("unknown")} => shard_key(r.group) = "unknown"
              /\ \A i \in LinesOf("unknown", r) :
                    disk["unknown"][i].source_id =
                        IF r.group = None THEN "" ELSE "unknown"
    /\ \A b \in 1..Len(batch_log) :
          batch_log[b].ok =>
              \A j \in 1..Len(batch_log[b].rows) :
                 LET r == batch_log[b].rows[j]
                 IN  Cardinality(LinesOf(shard_key(r.group), r)) = 1
    /\ disk["unknown"] # <<>> =>
          /\ disk["unknown"][1] = HeaderLine("unknown")
          /\ \A i \in 2..Len(disk["unknown"]) : disk["unknown"][i].id # 0

\* C38 witness: unknown.csv holds, under its header, a row written with an
\* empty source_id column and a row written with the source_id unknown.
C38_Witness ==
    /\ \E i \in 2..Len(disk["unknown"]) : disk["unknown"][i].source_id = ""
    /\ \E i \in 2..Len(disk["unknown"]) : disk["unknown"][i].source_id = "unknown"
    /\ disk["unknown"][1] = HeaderLine("unknown")
    /\ opens["unknown"] = 1

-----------------------------------------------------------------------------
(***************************************************************************)
(* PatternTrie::new and PatternTrie::extract / traverse.  A JSON value is  *)
(* a record with its kind t; an object keeps its members as a sequence of  *)
(* <<key, value>> pairs; paths, pattern names and values are strings.      *)
(***************************************************************************)
MaxSpecs == 2      \* field specifications on the command line: 1..MaxSpecs
MaxElems == 3      \* elements of an enumerated "author" array: 0..MaxElems
MaxCalls == 2      \* extract calls made on the document

JValue(kind, str, num, bool, members, elems) ==
    [t |-> kind, s |-> str, n |-> num, b |-> bool, kv |-> members,
     items |-> elems]

JStr(str) == JValue("string", str, 0, FALSE, <<>>, <<>>)

JNum(num) == JValue("number", "", num, FALSE, <<>>, <<>>)

JBool(bool) == JValue("bool", "", 0, bool, <<>>, <<>>)

JNull == JValue("null", "", 0, FALSE, <<>>, <<>>)

JObj(members) == JValue("object", "", 0, FALSE, members, <<>>)

JArr(elems) == JValue("array", "", 0, FALSE, <<>>, elems)

\* SCHEMA_STRUCTURE, the paths declared FieldType::Array (of the paths the
\* enumerated specifications walk).
ArrayPaths(prog) ==
    IF prog = "crossref"
    THEN {"author", "author.affiliation", "title", "relation.*"}
    ELSE {"authorships"}

schema_never_array(prog, schema_path) == FALSE

\* SCHEMA_STRUCTURE.get(&current_schema_path) == Some(&FieldType::Array)
schema_is_array(prog, schema_path) == schema_path \in ArrayPaths(prog)

\* [String]::join
RECURSIVE join(_, _)
join(parts, sep) ==
    IF parts = <<>> THEN ""
    ELSE IF Len(parts) = 1 THEN parts[1]
    ELSE parts[1] \o sep \o join(Tail(parts), sep)

\* The trie nodes a specification walks: its parts, with "[]" after each
\* part whose accumulated schema path is an Array.
RECURSIVE node_path(_, _, _)
node_path(prog, spec, i) ==
    IF i = 0 THEN <<>>
    ELSE LET upto == node_path(prog, spec, i - 1) \o <<spec[i]>>
         IN  IF schema_is_array(prog, join(SubSeq(spec, 1, i), "."))
             THEN upto \o <<"[]">> ELSE upto

\* The "[]" nodes the walk of a specification inserts by itself: one under
\* the node of each part whose accumulated schema path is an Array.
auto_inserted(prog, spec) ==
    {node_path(prog, spec, i) :
        i \in {k \in 1..Len(spec) :
                 schema_is_array(prog, join(SubSeq(spec, 1, k), "."))}}

Prefixes(path) == {SubSeq(path, 1, n) : n \in 0..Len(path)}

\* PatternTrieNode::default() as root: a trie is the set of its nodes, each
\* named by the segments leading to it, and their terminating_patterns.
EmptyTrie == [nodes |-> {<<>>}, term |-> [n \in {<<>>} |-> <<>>]]

\* The body of `for spec in &unique_specs`.
trie_insert(prog, t, spec) ==
    LET np    == node_path(prog, spec, Len(spec))
        nodes == t.nodes \cup Prefixes(np)
    IN  [nodes |-> nodes,
         term  |-> [n \in nodes |->
                      (IF n \in t.nodes THEN t.term[n] ELSE <<>>)
                      \o (IF n = np THEN <<join(spec, ".")>> ELSE <<>>)]]

RECURSIVE trie_insert_all(_, _, _)
trie_insert_all(prog, t, specs) ==
    IF specs = <<>> THEN t
    ELSE trie_insert_all(prog, trie_insert(prog, t, Head(specs)), Tail(specs))

relation_wildcard == <<"relation", "*">>

\* unique_specs: field_specs.to_vec(), plus relation.* (Crossref) when a
\* specification starts with "relation" and relation.* is not among them.
unique_specs(prog, specs) ==
    IF /\ prog = "crossref"
       /\ \E i \in 1..Len(specs) : specs[i][1] = "relation"
       /\ relation_wildcard \notin Range(specs)
    THEN Append(specs, relation_wildcard)
    ELSE specs

PatternTrie_new(prog, specs) ==
    trie_insert_all(prog, EmptyTrie, unique_specs(prog, specs))

\* serde_json::to_string
RECURSIVE to_json(_), members_to_json(_), items_to_json(_)
to_json(json) ==
    CASE json.t = "string" -> "\"" \o json.s \o "\""
      [] json.t = "number" -> ToString(json.n)
      [] json.t = "bool"   -> IF json.b THEN "true" ELSE "false"
      [] json.t = "null"   -> "null"
      [] json.t = "object" -> "{" \o members_to_json(json.kv) \o "}"
      [] json.t = "array"  -> "[" \o items_to_json(json.items) \o "]"

members_to_json(kv) ==
    IF kv = <<>> THEN ""
    ELSE "\"" \o kv[1][1] \o "\":" \o to_json(kv[1][2])
         \o (IF Len(kv) = 1 THEN "" ELSE "," \o members_to_json(Tail(kv)))

items_to_json(items) ==
    IF items = <<>> THEN ""
    ELSE to_json(items[1])
         \o (IF Len(items) = 1 THEN "" ELSE "," \o items_to_json(Tail(items)))

\* value_str of traverse
value_str_json(json) == to_json(json)

value_str(json) ==
    CASE json.t = "string" -> json.s
      [] json.t = "number" -> ToString(json.n)
      [] json.t = "bool"   -> IF json.b THEN "true" ELSE "false"
      [] json.t = "null"   -> ""
      [] OTHER             -> to_json(json)

\* `for (key, value) in obj`: the members of a serde_json Map in the order
\* it iterates them, the order of the keys in the input.
map_iter(json) == json.kv

key_path(current_path, key) ==
    IF current_path = "" THEN key ELSE current_path \o "." \o key

index_path(current_path, i) == current_path \o "[" \o ToString(i) \o "]"

Visit(value, node, path) == [value |-> value, node |-> node, path |-> path]

\* The recursive calls of the Object arm, in order: per member, the child
\* named by the key, then the child "*".
RECURSIVE member_visits(_, _, _, _)
member_visits(t, members, node, current_path) ==
    IF members = <<>> THEN <<>>
    ELSE LET key   == members[1][1]
             value == members[1][2]
             lit   == Append(node, key)
             wild  == Append(node, "*")
         IN  (IF lit \in t.nodes
              THEN <<Visit(value, lit, key_path(current_path, key))>>
              ELSE <<>>)
             \o (IF wild \in t.nodes
                 THEN <<Visit(value, wild, key_path(current_path, key))>>
                 ELSE <<>>)
             \o member_visits(t, Tail(members), node, current_path)

Reverse(seq) == [i \in 1..Len(seq) |-> seq[Len(seq) + 1 - i]]

object_visits_hashed(t, members, node, current_path, seed) ==
    IF seed = 1 THEN member_visits(t, members, node, current_path)
    ELSE Reverse(member_visits(t, members, node, current_path))

\* The Object arm: the document's members drive the loop and the children
\* of the trie node (a HashMap, whose order depends on the per-process seed)
\* are only looked up.
object_visits(t, members, node, current_path, seed) ==
    member_visits(t, members, node, current_path)

\* The Array arm: every element, if the node has a child "[]".
array_visits(t, elems, node, current_path) ==
    IF Append(node, "[]") \in t.nodes
    THEN [i \in 1..Len(elems) |->
            Visit(elems[i], Append(node, "[]"), index_path(current_path, i - 1))]
    ELSE <<>>

RECURSIVE traverse(_, _, _, _, _), traverse_all(_, _, _)
traverse(t, json, node, current_path, seed) ==
    LET here   == [i \in 1..Len(t.term[node]) |->
                     <<t.term[node][i], current_path, value_str(json)>>]
        visits == CASE json.t = "object" ->
                         object_visits(t, map_iter(json), node, current_path,
                                       seed)
                    [] json.t = "array" ->
                         array_visits(t, json.items, node, current_path)
                    [] OTHER -> <<>>
    IN  here \o traverse_all(t, visits, seed)

traverse_all(t, visits, seed) ==
    IF visits = <<>> THEN <<>>
    ELSE traverse(t, visits[1].value, visits[1].node, visits[1].path, seed)
         \o traverse_all(t, Tail(visits), seed)

\* PatternTrie::extract
extract(t, record, seed) == traverse(t, record, <<>>, "", seed)

\* The seeds of the HashMaps of a process (RandomState).
HashSeeds == {1, 2}

\* parse_field_specifications: the specifications given with --fields.
SpecUniverse ==
    { <<"author", "family">>, <<"author", "affiliation", "name">>,
      <<"title">>, <<"relation", "*", "id">>, <<"relation", "*">>,
      <<"authorships", "raw_author_name">>, <<"author", "[]", "family">> }

SpecLists == UNION {[1..n -> SpecUniverse] : n \in 1..MaxSpecs}

AuthorElems ==
    { JObj(<< <<"family", JStr("Doe")>> >>),
      JObj(<< <<"family", JStr("Roe")>> >>),
      JObj(<<>>) }

AuthorDocs ==
    { JObj(<< <<"author", JArr(a)>> >>) :
        a \in UNION {[1..n -> AuthorElems] : n \in 0..MaxElems} }

RelationDoc ==
    JObj(<< <<"relation",
              JObj(<< <<"cites", JArr(<< JObj(<< <<"id", JStr("a")>> >>) >>)>>,
                      <<"is-cited-by",
                        JArr(<< JObj(<< <<"id", JStr("b")>> >>),
                                JObj(<< <<"id", JStr("c")>> >>) >>)>> >>)>> >>)

TitleAuthorDoc ==
    JObj(<< <<"title", JArr(<<JStr("T")>>)>>,
            <<"author", JArr(<< JObj(<< <<"family", JStr("Doe")>>,
                                        <<"affiliation",
                                          JArr(<< JObj(<< <<"name", JStr("CERN")>> >>),
                                                  JObj(<< <<"name", JNull>> >>) >>)>> >>) >>)>> >>)

AuthorTitleDoc ==
    JObj(<< <<"author", JArr(<< JObj(<< <<"family", JStr("Doe")>> >>) >>)>>,
            <<"title", JArr(<<JStr("T"), JStr("U")>>)>> >>)

AuthorshipsDoc ==
    JObj(<< <<"title", JStr("T")>>,
            <<"authorships",
              JArr(<< JObj(<< <<"raw_author_name", JStr("J. Doe")>> >>),
                      JObj(<< <<"raw_author_name", JStr("R. Roe")>> >>) >>)>> >>)

PrimitivesDoc ==
    JObj(<< <<"title", JArr(<<JStr("T"), JStr("123"), JNum(7), JBool(TRUE),
                              JNull, JStr("")>>)>> >>)

Documents ==
    AuthorDocs \cup {RelationDoc, TitleAuthorDoc, AuthorTitleDoc, AuthorshipsDoc,
                     PrimitivesDoc}

ExtractInit ==
    /\ program \in {"crossref", "openalex"}
    /\ field_specs \in SpecLists
    /\ document \in Documents
    /\ trie = EmptyTrie
    /\ extracted = <<>>
    /\ epc = "new"
    /\ WriterIdle
    /\ PipeIdle
    /\ TransformIdle
    /\ RecordsIdle
    /\ PassesIdle
    /\ HeapIdle

\* prepare_extractor: PatternTrie::new(&field_specifications).
BuildTrie ==
    /\ epc = "new"
    /\ trie' = PatternTrie_new(program, field_specs)
    /\ epc' = "built"
    /\ UNCHANGED <<program, field_specs, document, extracted>>
    /\ UNCHANGED <<writerVars, pipeVars, transformVars, recordVars, passVars, heapVars>>

\* self.extractor.extract(&record), in a process with some hash seed.
Extract ==
    /\ epc = "built"
    /\ Len(extracted) < MaxCalls
    /\ \E seed \in HashSeeds :
         extracted' = Append(extracted, extract(trie, document, seed))
    /\ UNCHANGED <<program, field_specs, document, trie, epc>>
    /\ UNCHANGED <<writerVars, pipeVars, transformVars, recordVars, passVars, heapVars>>

ExtractNext == BuildTrie \/ Extract

SpecExtract == ExtractInit /\ [][ExtractNext]_vars

\* The value of member key of an object, as an Option.
member_of(json, key) ==
    LET hits == SelectSeq(json.kv, LAMBDA m : m[1] = key)
    IN  IF json.t # "object" \/ hits = <<>> THEN None ELSE Some(hits[1][2])

\* The triples of a run that carry the pattern name.
WithPattern(triples, name) == SelectSeq(triples, LAMBDA tr : tr[1] = name)

TimesGiven(specs, spec) == Cardinality({i \in 1..Len(specs) : specs[i] = spec})

\* One triple per element of the array that has the member "family", in
\* index order, with the index in the path.
RECURSIVE family_triples(_, _)
family_triples(elems, i) ==
    IF i > Len(elems) THEN <<>>
    ELSE LET fam == member_of(elems[i], "family")
         IN  (IF fam = None THEN <<>>
              ELSE << <<"author.family",
                        "author[" \o ToString(i - 1) \o "].family",
                        value_str(fam[1])>> >>)
             \o family_triples(elems, i + 1)

\* C17: author is an Array in the Crossref schema, so for the specification
\* author.family (given once) and a document whose "author" is an array,
\* every extract call returns, under that pattern, exactly one triple per
\* element that has "family", with path author[i].family, in index order;
\* elements without the member give no triple.
C17_ArrayFanOut ==
    LET authors == member_of(document, "author")
    IN  (/\ program = "crossref"
         /\ TimesGiven(field_specs, <<"author", "family">>) = 1
         /\ authors # None
         /\ authors[1].t = "array") =>
            \A k \in 1..Len(extracted) :
                WithPattern(extracted[k], "author.family")
                    = family_triples(authors[1].items, 1)

\* C17 witness: author.family over [{"family":"Doe"},{"family":"Roe"},{}]
\* has given the two triples of the first two elements.
C17_Witness ==
    /\ program = "crossref"
    /\ field_specs = << <<"author", "family">> >>
    /\ document = JObj(<< <<"author",
                            JArr(<< JObj(<< <<"family", JStr("Doe")>> >>),
                                    JObj(<< <<"family", JStr("Roe")>> >>),
                                    JObj(<<>>) >>)>> >>)
    /\ extracted # <<>>
    /\ extracted[1] = << <<"author.family", "author[0].family", "Doe">>,
                         <<"author.family", "author[1].family", "Roe">> >>

\* C18 as stated: with the single specification relation.*.id (Crossref)
\* and the document {"relation":{"cites":[{"id":"a"}],"is-cited-by":
\* [{"id":"b"},{"id":"c"}]}}, extract returns three triples, with the paths
\* relation.cites[0].id, relation.is-cited-by[0].id and
\* relation.is-cited-by[1].id, every one under the pattern name the user
\* gave.
C18_Original ==
    (/\ program = "crossref"
     /\ field_specs = << <<"relation", "*", "id">> >>
     /\ document = RelationDoc) =>
        \A k \in 1..Len(extracted) :
            /\ Len(extracted[k]) = 3
            /\ [i \in 1..3 |-> extracted[k][i][2]]
                 = <<"relation.cites[0].id", "relation.is-cited-by[0].id",
                     "relation.is-cited-by[1].id">>
            /\ \A i \in 1..Len(extracted[k]) :
                 extracted[k][i][1] = "relation.*.id"

\* C19 as stated: whatever the specifications (repeated ones included) and
\* the document, no (pattern, concrete path) pair is emitted twice by one
\* extract call: the triples under a pattern are as many as the distinct
\* paths among them.
C19_Original ==
    \A k \in 1..Len(extracted) :
        \A i, j \in 1..Len(extracted[k]) :
            (i # j) =>
                <<extracted[k][i][1], extracted[k][i][2]>>
                    # <<extracted[k][j][1], extracted[k][j][2]>>

\* The concrete paths of a document, parents first, members in the order of
\* the document and elements in index order.
RECURSIVE all_paths(_, _), member_paths(_, _), item_paths(_, _, _)
all_paths(json, path) ==
    <<path>> \o (CASE json.t = "object" -> member_paths(json.kv, path)
                   [] json.t = "array"  -> item_paths(json.items, path, 1)
                   [] OTHER -> <<>>)

member_paths(kv, path) ==
    IF kv = <<>> THEN <<>>
    ELSE all_paths(kv[1][2], key_path(path, kv[1][1]))
         \o member_paths(Tail(kv), path)

item_paths(items, path, i) ==
    IF i > Len(items) THEN <<>>
    ELSE all_paths(items[i], index_path(path, i - 1))
         \o item_paths(items, path, i + 1)

PathIndex(paths, p) == CHOOSE i \in 1..Len(paths) : paths[i] = p

InDocumentOrder(triples) ==
    LET paths == all_paths(document, "")
    IN  /\ \A i \in 1..Len(triples) : triples[i][2] \in Range(paths)
        /\ \A i, j \in 1..Len(triples) :
             i < j => PathIndex(paths, triples[i][2])
                        <= PathIndex(paths, triples[j][2])

RECURSIVE all_values(_, _), member_values(_, _), item_values(_, _, _)
all_values(json, path) ==
    << <<path, json>> >>
    \o (CASE json.t = "object" -> member_values(json.kv, path)
          [] json.t = "array"  -> item_values(json.items, path, 1)
          [] OTHER -> <<>>)

member_values(kv, path) ==
    IF kv = <<>> THEN <<>>
    ELSE all_values(kv[1][2], key_path(path, kv[1][1]))
         \o member_values(Tail(kv), path)

item_values(items, path, i) ==
    IF i > Len(items) THEN <<>>
    ELSE all_values(items[i], index_path(path, i - 1))
         \o item_values(items, path, i + 1)

\* The value of the document at a concrete path.
ValueAt(path) ==
    LET vs == all_values(document, "")
    IN  vs[CHOOSE i \in 1..Len(vs) : vs[i][1] = path][2]

\* The JSON values the strings of a run can stand for: the values of the
\* document and the primitives their texts could be taken for.
JsonValues ==
    {pv[2] : pv \in Range(all_values(document, ""))}
        \cup {JNum(123), JNum(7), JBool(TRUE), JBool(FALSE), JNull}

\* serde_json::from_str on a compact text: the value that is written so, if
\* there is one.
from_str(text) ==
    IF \E v \in JsonValues : to_json(v) = text
    THEN Some(CHOOSE v \in JsonValues : to_json(v) = text)
    ELSE None

IsPrimitive(json) == json.t \in {"string", "number", "bool", "null"}

Triples == UNION {Range(extracted[k]) : k \in 1..Len(extracted)}

-----------------------------------------------------------------------------
(***************************************************************************)
(* external_sort::sort_csv by numbers: how many rows each chunk file holds *)
(* and how many passes merge them, with the constants of the code.         *)
(***************************************************************************)
MERGE_WIDTH == 100

\* Rows of the input file as the parsers of the blocks read them.
PassTotals == {2500000, 1200000}

PassChunkSizes == {100000, 10000}

\* Rows per 256 MiB block: 2,500,000 rows make 1, 2, 76, 100 or 125 blocks.
PassBlockRows == {2500000, 1250000, 32895, 25000, 20000}

\* The chunk files one block gives: a chunk per chunk_size records, and one
\* for the records left at the end of the block.
chunks_of(rows, c) ==
    [i \in 1..((rows + c - 1) \div c) |->
        IF i * c <= rows THEN c ELSE rows - (i - 1) * c]

needs_pass_until_one(n) == n > 1

\* while chunk_files.len() > MERGE_WIDTH
needs_pass(n) == n > MERGE_WIDTH

\* chunk_files.chunks(MERGE_WIDTH), each group merged into one file.
merged_groups(chunks) ==
    [g \in 1..((Len(chunks) + MERGE_WIDTH - 1) \div MERGE_WIDTH) |->
        SeqSum(SubSeq(chunks, (g - 1) * MERGE_WIDTH + 1,
                      Min(g * MERGE_WIDTH, Len(chunks))))]

PassesInit ==
    /\ p_total \in PassTotals
    /\ p_chunk_size \in PassChunkSizes
    /\ p_block_rows \in PassBlockRows
    /\ p_remaining = p_total
    /\ p_blocks = 0 /\ p_chunks = <<>> /\ p_first_chunks = 0 /\ p_pass = 0
    /\ p_out = 0 /\ p_pc = "chunking"
    /\ WriterIdle
    /\ PipeIdle
    /\ TransformIdle
    /\ RecordsIdle
    /\ ExtractIdle
    /\ HeapIdle

\* create_sorted_chunks: one block is read, parsed and written as chunks.
ChunkBlock ==
    /\ p_pc = "chunking" /\ p_remaining > 0
    /\ LET rows == Min(p_block_rows, p_remaining)
       IN  /\ p_remaining' = p_remaining - rows
           /\ p_chunks' = p_chunks \o chunks_of(rows, p_chunk_size)
    /\ p_blocks' = p_blocks + 1
    /\ UNCHANGED <<p_total, p_chunk_size, p_block_rows, p_first_chunks,
                   p_pass, p_out, p_pc>>
    /\ UNCHANGED <<writerVars, pipeVars, transformVars, recordVars,
                   extractVars, heapVars>>

\* create_sorted_chunks returns the chunk files.
ChunkingDone ==
    /\ p_pc = "chunking" /\ p_remaining = 0
    /\ p_first_chunks' = Len(p_chunks)
    /\ p_pc' = "merging"
    /\ UNCHANGED <<p_total, p_chunk_size, p_block_rows, p_remaining, p_blocks,
                   p_chunks, p_pass, p_out>>
    /\ UNCHANGED <<writerVars, pipeVars, transformVars, recordVars,
                   extractVars, heapVars>>

\* One iteration of the while loop of sort_csv.
IntermediatePass ==
    /\ p_pc = "merging" /\ needs_pass(Len(p_chunks))
    /\ p_pass' = p_pass + 1
    /\ p_chunks' = merged_groups(p_chunks)
    /\ UNCHANGED <<p_total, p_chunk_size, p_block_rows, p_remaining, p_blocks,
                   p_first_chunks, p_out, p_pc>>
    /\ UNCHANGED <<writerVars, pipeVars, transformVars, recordVars,
                   extractVars, heapVars>>

\* merge_chunks(&chunk_files, output_path)
LastMerge ==
    /\ p_pc = "merging" /\ ~needs_pass(Len(p_chunks))
    /\ p_out' = SeqSum(p_chunks)
    /\ p_chunks' = <<>>
    /\ p_pc' = "done"
    /\ UNCHANGED <<p_total, p_chunk_size, p_block_rows, p_remaining, p_blocks,
                   p_first_chunks, p_pass>>
    /\ UNCHANGED <<writerVars, pipeVars, transformVars, recordVars,
                   extractVars, heapVars>>

PassesNext == ChunkBlock \/ ChunkingDone \/ IntermediatePass \/ LastMerge

SpecPasses == PassesInit /\ [][PassesNext]_vars

\* The scenario of C23.
Scenario23 == p_total = 2500000 /\ p_chunk_size = 100000 /\ p_pc = "done"

\* Merge passes of a finished sort: the intermediate ones and the final one.
MergePasses == p_pass + 1

C30_Original ==
    epc = "built" =>
        LET specs == unique_specs(program, field_specs)
        IN  /\ \A n \in trie.nodes :
                   (n # <<>> /\ n[Len(n)] = "[]") =>
                       \E i \in 1..Len(specs) :
                           n \in auto_inserted(program, specs[i])
            /\ \A i \in 1..Len(specs) : \A k \in 1..Len(specs[i]) :
                   join(SubSeq(specs[i], 1, k), ".") \in ArrayPaths(program) =>
                       (node_path(program, specs[i], k - 1)
                            \o <<specs[i][k], "[]">>) \in trie.nodes

-----------------------------------------------------------------------------
(***************************************************************************)
(* external_sort::merge_chunks, one heap operation at a time.  A record is *)
(* its work_id and the place <<reader, position>> it has in the chunk      *)
(* files; the BinaryHeap is the sequence of its entries in push order, of  *)
(* which pop takes a greatest one.                                         *)
(***************************************************************************)
MaxReaders == 3    \* chunk files given to one merge: 0..MaxReaders

\* The work_ids of a chunk file, which is sorted and not empty.
ChunkShapes == {<<1>>, <<2>>, <<1, 1>>, <<1, 2>>, <<2, 2>>}

HeapInputs ==
    {[r \in 1..Len(shape) |->
         [k \in 1..Len(shape[r]) |->
             [work_id |-> shape[r][k], line |-> <<r, k>>]]] :
     shape \in UNION {[1..n -> ChunkShapes] : n \in 0..MaxReaders}}

\* Ordering as an integer: Less -1, Equal 0, Greater 1.
Ordering(a, b) == IF a < b THEN -1 ELSE IF a > b THEN 1 ELSE 0

HeapEntry_cmp_natural(self, other) ==
    Ordering(self.record.work_id, other.record.work_id)

\* impl Ord for HeapEntry: other.record.work_id.cmp(&self.record.work_id)
HeapEntry_cmp(self, other) ==
    Ordering(other.record.work_id, self.record.work_id)

HeapEntry(record, reader_index) ==
    [record |-> record, reader_index |-> reader_index]

\* reader.deserialize().next() on reader r, and the heap after the push it
\* leads to, if any.
refill(next, heap, r) ==
    IF next[r] < Len(h_chunks[r])
    THEN [next |-> [next EXCEPT ![r] = @ + 1],
          heap |-> Append(heap, HeapEntry(h_chunks[r][next[r] + 1], r))]
    ELSE [next |-> next, heap |-> heap]

HeapInit ==
    /\ h_chunks \in HeapInputs
    /\ h_next = [r \in 1..Len(h_chunks) |-> 0]
    /\ h_heap = <<>> /\ h_out = <<>> /\ h_i = 0
    /\ h_pc = IF h_chunks = <<>> THEN "merging" ELSE "heads"
    /\ WriterIdle
    /\ PipeIdle
    /\ TransformIdle
    /\ RecordsIdle
    /\ ExtractIdle
    /\ PassesIdle

\* for (i, reader) in readers.iter_mut().enumerate(): one iteration.
PushHead ==
    /\ h_pc = "heads" /\ h_i < Len(h_chunks)
    /\ LET f == refill(h_next, h_heap, h_i + 1)
       IN  h_next' = f.next /\ h_heap' = f.heap
    /\ h_i' = h_i + 1
    /\ h_pc' = IF h_i + 1 = Len(h_chunks) THEN "merging" ELSE "heads"
    /\ UNCHANGED <<h_chunks, h_out>>
    /\ UNCHANGED <<writerVars, pipeVars, transformVars, recordVars,
                   extractVars, passVars>>

\* while let Some(entry) = heap.pop(): one iteration.  pop takes an entry
\* that no other entry is greater than.
PopWrite ==
    /\ h_pc = "merging" /\ h_heap # <<>>
    /\ \E j \in 1..Len(h_heap) :
         /\ \A k \in 1..Len(h_heap) : HeapEntry_cmp(h_heap[j], h_heap[k]) >= 0
         /\ LET entry  == h_heap[j]
                popped == SubSeq(h_heap, 1, j - 1)
                              \o SubSeq(h_heap, j + 1, Len(h_heap))
                f      == refill(h_next, popped, entry.reader_index)
            IN  /\ h_out' = Append(h_out, entry.record)
                /\ h_next' = f.next /\ h_heap' = f.heap
    /\ UNCHANGED <<h_chunks, h_i, h_pc>>
    /\ UNCHANGED <<writerVars, pipeVars, transformVars, recordVars,
                   extractVars, passVars>>

\* heap.pop() returns None: the output is flushed and merge_chunks returns.
MergeEnd ==
    /\ h_pc = "merging" /\ h_heap = <<>>
    /\ h_pc' = "done"
    /\ UNCHANGED <<h_chunks, h_next, h_heap, h_out, h_i>>
    /\ UNCHANGED <<writerVars, pipeVars, transformVars, recordVars,
                   extractVars, passVars>>

HeapNext == PushHead \/ PopWrite \/ MergeEnd

SpecHeap == HeapInit /\ [][HeapNext]_vars

\* The records of the readers that are not written yet.
Unwritten ==
    UNION {Range(h_chunks[r]) : r \in 1..Len(h_chunks)} \ Range(h_out)

\* C34, the heap: it holds at most one entry per reader, which is the record
\* the reader gave last and is not written yet; once the first loop is over
\* a reader has an entry exactly when it has given a record that is not
\* written, and every record given before that one is written; the merge
\* ends with every reader exhausted and every record written once.
C34_Heap ==
    /\ \A j \in 1..Len(h_heap) : \A k \in 1..Len(h_heap) :
           h_heap[j].reader_index = h_heap[k].reader_index => j = k
    /\ \A j \in 1..Len(h_heap) :
           LET r == h_heap[j].reader_index
           IN  /\ h_next[r] >= 1
               /\ h_heap[j].record = h_chunks[r][h_next[r]]
               /\ h_heap[j].record \notin Range(h_out)
    /\ h_pc \in {"merging", "done"} =>
           \A r \in 1..Len(h_chunks) :
               /\ h_next[r] >= 1
               /\ \A k \in 1..(h_next[r] - 1) : h_chunks[r][k] \in Range(h_out)
               /\ (h_chunks[r][h_next[r]] \notin Range(h_out))
                      <=> (\E j \in 1..Len(h_heap) : h_heap[j].reader_index = r)
    /\ h_pc = "done" =>
           /\ \A r \in 1..Len(h_chunks) : h_next[r] = Len(h_chunks[r])
           /\ Len(h_out) = SeqSum([r \in 1..Len(h_chunks) |-> Len(h_chunks[r])])
           /\ \A i \in 1..Len(h_out) : \A j \in 1..Len(h_out) :
                  h_out[i] = h_out[j] => i = j

\* C34, one pop: the record written was not written before and no record
\* still unwritten has a smaller key; the reader it came from, and no other,
\* gives its next record if it has one.
C34_Step ==
    Len(h_out') = Len(h_out) + 1 =>
        LET rec == h_out'[Len(h_out')]
            r   == rec.line[1]
        IN  /\ rec \in Unwritten
            /\ \A u \in Unwritten : rec.work_id <= u.work_id
            /\ h_next' = [h_next EXCEPT
                              ![r] = IF @ < Len(h_chunks[r]) THEN @ + 1 ELSE @]

C34_HeapDiscipline == [][C34_Step]_vars /\ []C34_Heap

\* C34 witness: a merge of three readers has ended after five pops or more.
C34_Witness ==
    /\ h_pc = "done" /\ Len(h_chunks) = 3 /\ Len(h_out) >= 5

=============================================================================
